---------------------------- MODULE Spec2Model ----------------------------
(***************************************************************************)
(* Relative-strength ranking and daily screening of us_stock_wizard.      *)
(*                                                                         *)
(* The module models RelativeStrengthCalculator (screener/rs_calculator.py)*)
(* and the StockDbUtils table store (database/db_utils.py): the per-ticker *)
(* momentum series of batch_get_rs, the per-date cross-sectional ranking   *)
(* and bulk insert of batch_get_all_rs, the single-ticker path get_rs, and *)
(* the entry points update_all_rs and updater/initialize.py (Spec).        *)
(* It also models TaAnalyzer (screener/ta_analyzer.py), the criteria of    *)
(* get_result on the bars dated up to an as-of date, and DailyScreener     *)
(* (screener/daily_screener.py): initialize, screen_all and save           *)
(* (ScreenerSpec).                                                         *)
(*                                                                         *)
(* Dates are day numbers; day 0 is a Monday.  Prices are positive          *)
(* integers and every score is an exact rational, so a comparison of two   *)
(* scores is exact; pandas computes the same quotients in double           *)
(* precision.                                                              *)
(***************************************************************************)
EXTENDS Integers, Sequences, FiniteSets, TLC

VARIABLES
    today,        \* wall-clock date, pd.Timestamp.today().date()
    kline_db,     \* table DailyKline: ticker -> price history
    rs_db,        \* table RelativeStrength: its rows
    stocks,       \* RelativeStrengthCalculator.stocks
    pc,           \* position of the batch run
    start,        \* batch_get_all_rs argument start
    end,          \* batch_get_all_rs argument end
    i,            \* index of the next ticker in `for ticker in self.stocks`
    combined,     \* combined_rs / combined_m1 / combined_m3 / combined_m6, one column per ticker
    j,            \* index of the next row in `for index, row in combined_rs.iterrows()`
    merged,       \* the records handed to StockDbUtils.insert by the last row processed
    error,        \* the exception that ended the run, if any
    succ_count,   \* dates with records
    fail_count,   \* dates without records
    runs,         \* number of batch runs started
    hist,         \* the first ranking of every date and score snapshot: its column order and records
    single_rs,    \* the last value returned by get_rs
    ta,           \* a TaAnalyzer: its ticker's bars (kline), rs and cret
    ta_out,       \* the last call of TaAnalyzer.get_result: its arguments and outcome
    ta_prev,      \* the call of get_result before the last one
    ds,           \* a DailyScreener: stocks, rs_dict, succ_tickers
    ds_run,       \* the position of screen_all / save: pc, loop index, summary, error
    report_db,    \* table Report: its rows in insertion order
    report_read,  \* the last value returned by StockDbUtils.read_first on Report
    main,         \* a run of updater/all_in_one.py main(): its stage and messages
    retry         \* a call of a function wrapped by retry_decorator

\* the state of TaAnalyzer and of DailyScreener
ta_vars == <<ta, ta_out, ta_prev>>
ds_vars == <<ds, ds_run, report_db>>

\* the state of the report reader, of all_in_one.main and of the retry wrapper
run_vars == <<report_read, main, retry>>

\* the state of RelativeStrengthCalculator and its table
rs_vars == <<rs_db, stocks, pc, start, end, i, combined, j,
             merged, error, succ_count, fail_count, runs, hist, single_rs>>

vars == <<today, kline_db, rs_db, stocks, pc, start, end, i, combined, j,
          merged, error, succ_count, fail_count, runs, hist, single_rs,
          ta, ta_out, ta_prev, ds, ds_run, report_db, report_read, main, retry>>

---------------------------------------------------------------------------
(* Bounds of the model *)

\* number of tickers of the universe
MaxTickers == 3
\* number of batch runs in one behaviour
MaxRuns == 2
\* number of midnights that pass in one behaviour
MaxTicks == 1
\* how many days before today a historical rerun may lie
MaxLookback == 1

\* how many weeks before the first day an as-of date may lie
MaxWeeksBack == 1
\* number of calls of save() on one screener
MaxSaves == 2
\* the largest value of the argument retries of a retry decorator
MaxRetries == 2

(* Program constants *)

\* rs_calculator.py: `if kline.shape[0] < 252`
MinBars == 252
\* shift(30), shift(90), shift(180), shift(270), shift(360)
H30 == 30
H90 == 90
H180 == 180
H270 == 270
H360 == 360

\* The first wall-clock date of a behaviour: the Wednesday of week 60.
Today0 == 7 * 60 + 2

Tickers == 1..MaxTickers

---------------------------------------------------------------------------
(* Values: NaN and numbers *)

\* a missing float (NaN) and a present rational n/d, d > 0
RNaN == [nan |-> TRUE, n |-> 0, d |-> 1]

RECURSIVE GCD(_, _)
GCD(a, b) == IF b = 0 THEN a ELSE GCD(b, a % b)

Rat(n, d) == LET g == GCD(n, d) IN [nan |-> FALSE, n |-> n \div g, d |-> d \div g]

\* float division, multiplication, addition; NaN propagates
RDiv(a, b) == IF a.nan \/ b.nan THEN RNaN ELSE Rat(a.n * b.d, a.d * b.n)
RMul(a, b) == IF a.nan \/ b.nan THEN RNaN ELSE Rat(a.n * b.n, a.d * b.d)
RAdd(a, b) == IF a.nan \/ b.nan THEN RNaN ELSE Rat(a.n * b.d + b.n * a.d, a.d * b.d)
RLess(a, b) == a.n * b.d < b.n * a.d

\* a missing integer of a record and a present one
INaN == [nan |-> TRUE, v |-> 0]
IVal(v) == [nan |-> FALSE, v |-> v]

---------------------------------------------------------------------------
(* The DailyKline table *)

\* A price history: a bar on every weekday from `first` to `last` except
\* the days gap_lo..gap_hi, adjClose p0 before `pivot` and p1 from it on.
Shape(first, last, gap_lo, gap_hi, p0, p1, pivot) ==
    [first |-> first, last |-> last, gap_lo |-> gap_lo, gap_hi |-> gap_hi,
     p0 |-> p0, p1 |-> p1, pivot |-> pivot]

LongFlat  == Shape(14, Today0 + 1, 1, 0, 2, 2, 0)
LongUp    == Shape(14, Today0 + 1, 1, 0, 1, 2, Today0 - 100)
LongDown  == Shape(14, Today0 + 1, 1, 0, 2, 1, Today0 - 22)
\* exactly MinBars bars dated <= Today0, the first of them 351 days back
Exact252  == Shape(Today0 - 351, Today0 + 1, 1, 0, 1, 2, Today0 - 50)
\* exactly MinBars - 1 bars dated <= Today0
Exact251  == Shape(Today0 - 350, Today0 + 1, 1, 0, 1, 2, Today0 - 50)
\* exactly MinBars bars dated <= Today0, with a gap, the first 408 days back
Gap252    == Shape(14, Today0 + 1, 21, 77, 1, 2, Today0 - 200)
\* no bar at all
NoBars    == Shape(1, 0, 1, 0, 1, 1, 0)
\* the price doubles over the weekend that lies 270 days before Today0
WeekendStep == Shape(14, Today0 + 1, 1, 0, 1, 2, Today0 - 269)

\* A content of the table: the histories a, b, c given to the tickers in turn
Universe(a, b, c) ==
    [t \in Tickers |-> CASE t % 3 = 1 -> a [] t % 3 = 2 -> b [] OTHER -> c]

\* the contents of the table a behaviour may start from
Universes ==
    {Universe(LongUp, LongDown, LongFlat),
     Universe(LongFlat, LongFlat, NoBars),
     Universe(Exact252, Gap252, Exact251),
     Universe(LongUp, LongDown, Exact251),
     Universe(WeekendStep, LongFlat, NoBars)}

Weekday(d) == d % 7 < 5

HasBar(k, d) ==
    /\ k.first <= d /\ d <= k.last
    /\ Weekday(d)
    /\ ~(k.gap_lo <= d /\ d <= k.gap_hi)

AdjClose(k, d) == IF d < k.pivot THEN k.p0 ELSE k.p1

\* TradingCalendar: the weekdays
InCalendar(d) == Weekday(d)

---------------------------------------------------------------------------
(* RelativeStrengthCalculator: the per-ticker series *)

\* get_kline: the dates of the ticker's bars dated <= deadline
get_kline(k, deadline) == {d \in k.first..deadline : HasBar(k, d)}

\* every price history of the model and every deadline a behaviour can reach
AllShapes == {LongFlat, LongUp, LongDown, Exact252, Exact251, Gap252, NoBars, WeekendStep}
Deadlines == (Today0 - MaxLookback)..(Today0 + MaxTicks)

\* kline.shape[0] of get_kline's result, tabulated once per history and deadline
RowCounts == {<<k, dl, Cardinality(get_kline(k, dl))>> : k \in AllShapes, dl \in Deadlines}
Shape0(k, deadline) == (CHOOSE r \in RowCounts : r[1] = k /\ r[2] = deadline)[3]

\* variant: the floor compared with <=
InsufficientDataInclusive(n) == n <= MinBars

\* kline.shape[0] < 252
InsufficientData(n) == n < MinBars

\* the last bar dated <= d (d is not before the first bar)
RECURSIVE PrevBar(_, _)
PrevBar(k, d) == IF HasBar(k, d) THEN d ELSE PrevBar(k, d - 1)

\* the first bar dated >= d (d is not after the last bar)
RECURSIVE NextBar(_, _)
NextBar(k, d) == IF HasBar(k, d) THEN d ELSE NextBar(k, d + 1)

\* kline.resample("D").ffill(): a row for every calendar day from the first
\* bar to the last bar kept by get_kline, carrying the last bar's adjClose
ResampleFirst(k) == NextBar(k, k.first)
ResampleLast(k, deadline) == PrevBar(k, IF deadline < k.last THEN deadline ELSE k.last)
InResampled(k, deadline, d) == ResampleFirst(k) <= d /\ d <= ResampleLast(k, deadline)
FFill(k, d) == Rat(AdjClose(k, PrevBar(k, d)), 1)

\* kline["adjClose"].shift(h) at row d: the value h rows (days) earlier
Shifted(k, d, h) == IF d - h >= ResampleFirst(k) THEN FFill(k, d - h) ELSE RNaN

\* variant: the weight 0.4 on the 360-day ratio instead of the 90-day ratio
CompositeSwappedWeights(k, d) ==
    RAdd(RAdd(RAdd(RMul(RDiv(FFill(k, d), Shifted(k, d, H90)), Rat(1, 5)),
                   RMul(RDiv(FFill(k, d), Shifted(k, d, H180)), Rat(1, 5))),
              RMul(RDiv(FFill(k, d), Shifted(k, d, H270)), Rat(1, 5))),
         RMul(RDiv(FFill(k, d), Shifted(k, d, H360)), Rat(2, 5)))

\* kline[ticker] = adjClose / 90d_ago * 0.4 + adjClose / 180d_ago * 0.2 + ...
CompositeAt(k, d) ==
    RAdd(RAdd(RAdd(RMul(RDiv(FFill(k, d), Shifted(k, d, H90)), Rat(2, 5)),
                   RMul(RDiv(FFill(k, d), Shifted(k, d, H180)), Rat(1, 5))),
              RMul(RDiv(FFill(k, d), Shifted(k, d, H270)), Rat(1, 5))),
         RMul(RDiv(FFill(k, d), Shifted(k, d, H360)), Rat(1, 5)))

M1At(k, d) == RDiv(FFill(k, d), Shifted(k, d, H30))
M3At(k, d) == RDiv(FFill(k, d), Shifted(k, d, H90))
M6At(k, d) == RDiv(FFill(k, d), Shifted(k, d, H180))

ScoresAt(k, d) ==
    [rs |-> CompositeAt(k, d), m1 |-> M1At(k, d), m3 |-> M3At(k, d), m6 |-> M6At(k, d)]

\* batch_get_rs: None, or the four series restricted to start..end
batch_get_rs(k, s, e, now) ==
    IF InsufficientData(Shape0(k, now))
    THEN [none |-> TRUE, rows |-> <<>>]
    ELSE [none |-> FALSE,
          rows |-> [d \in {x \in s..e : InResampled(k, now, x)} |-> ScoresAt(k, d)]]

\* get_rs: None off the calendar or with fewer than 252 bars dated <= date,
\* else the composite over the first bars dated >= date - 90, 180, 270, 360
PriceNow(k, date) == Rat(AdjClose(k, PrevBar(k, date)), 1)
PriceAgo(k, date, h) == Rat(AdjClose(k, NextBar(k, date - h)), 1)

get_rs(k, date) ==
    IF ~InCalendar(date) THEN [none |-> TRUE, v |-> RNaN]
    ELSE IF InsufficientData(Shape0(k, date)) THEN [none |-> TRUE, v |-> RNaN]
    ELSE [none |-> FALSE,
          v |-> RAdd(RAdd(RAdd(RMul(Rat(2, 5), RDiv(PriceNow(k, date), PriceAgo(k, date, H90))),
                               RMul(Rat(1, 5), RDiv(PriceNow(k, date), PriceAgo(k, date, H180)))),
                          RMul(Rat(1, 5), RDiv(PriceNow(k, date), PriceAgo(k, date, H270)))),
                     RMul(Rat(1, 5), RDiv(PriceNow(k, date), PriceAgo(k, date, H360))))]

---------------------------------------------------------------------------
(* RelativeStrengthCalculator: the cross-sectional ranking of one date *)

\* the index of the combined frames: every date some column has a row for
CombinedIndex(cmb) ==
    {d \in start..end : \E c \in 1..Len(cmb) : d \in DOMAIN cmb[c].rows}

\* the dates of a set in ascending order
RECURSIVE Ascending(_)
Ascending(S) ==
    IF S = {} THEN <<>>
    ELSE LET m == CHOOSE x \in S : \A y \in S : x <= y
         IN <<m>> \o Ascending(S \ {m})

\* the row of date d of one combined frame: a value or NaN per column
SeriesOf(scores, which) ==
    CASE which = "rs" -> scores.rs
      [] which = "m1" -> scores.m1
      [] which = "m3" -> scores.m3
      [] OTHER        -> scores.m6

RowAt(cmb, d, which) ==
    [c \in 1..Len(cmb) |->
        [ticker |-> cmb[c].ticker,
         v |-> IF d \in DOMAIN cmb[c].rows THEN SeriesOf(cmb[c].rows[d], which) ELSE RNaN]]

\* _df.dropna(inplace=True)
NotNa(e) == ~e.v.nan
DropNa(row) == SelectSeq(row, NotNa)

\* variant: rank(ascending=False)
Rank2Descending(col, p) ==
    2 * Cardinality({q \in 1..Len(col) : RLess(col[p].v, col[q].v)})
      + Cardinality({q \in 1..Len(col) : col[q].v = col[p].v}) + 1

\* variant: rank(method="first"), ties ranked in column order
Rank2First(col, p) ==
    2 * (Cardinality({q \in 1..Len(col) : RLess(col[q].v, col[p].v)})
         + Cardinality({q \in 1..p : col[q].v = col[p].v}))

\* variant: rank(method="min"), ties given the lowest of their positions
Rank2Min(col, p) ==
    2 * (Cardinality({q \in 1..Len(col) : RLess(col[q].v, col[p].v)}) + 1)

\* twice Series.rank(ascending=True) of entry p: ties get the mean of their positions
Rank2(col, p) ==
    2 * Cardinality({q \in 1..Len(col) : RLess(col[q].v, col[p].v)})
      + Cardinality({q \in 1..Len(col) : col[q].v = col[p].v}) + 1

\* variant: a rank counted from 2
PercentRankPlusOne(rank2, len) == ((rank2 + 2) * 100) \div (2 * len)

\* variant: round() to the nearest integer instead of astype(int)
PercentRound(rank2, len) == (rank2 * 100 + len) \div (2 * len)

\* (rank / len(rank) * 100).astype(int)
Percent(rank2, len) == (rank2 * 100) \div (2 * len)

\* the rank column of one series: ticker -> integer score
RankFrame(row) ==
    LET col == DropNa(row)
    IN [p \in 1..Len(col) |-> [ticker |-> col[p].ticker, score |-> Percent(Rank2(col, p), Len(col))]]

Lookup(frame, t) ==
    IF \E p \in 1..Len(frame) : frame[p].ticker = t
    THEN IVal(frame[CHOOSE p \in 1..Len(frame) : frame[p].ticker = t].score)
    ELSE INaN

InFrame(frame, t) == \E p \in 1..Len(frame) : frame[p].ticker = t

\* pd.concat([_df, _m1, _m3, _m6], axis=1) ... merged.to_dict(orient="records")
Merged(cmb, d) ==
    LET df == RankFrame(RowAt(cmb, d, "rs"))
        m1 == RankFrame(RowAt(cmb, d, "m1"))
        m3 == RankFrame(RowAt(cmb, d, "m3"))
        m6 == RankFrame(RowAt(cmb, d, "m6"))
        Present(c) == \/ InFrame(df, c.ticker) \/ InFrame(m1, c.ticker)
                  \/ InFrame(m3, c.ticker) \/ InFrame(m6, c.ticker)
        cols == SelectSeq(cmb, Present)
    IN [p \in 1..Len(cols) |->
          [date |-> d, ticker |-> cols[p].ticker,
           rscore |-> Lookup(df, cols[p].ticker), M1 |-> Lookup(m1, cols[p].ticker),
           M3 |-> Lookup(m3, cols[p].ticker), M6 |-> Lookup(m6, cols[p].ticker)]]

HasMissing(rec) == rec.rscore.nan \/ rec.M1.nan \/ rec.M3.nan \/ rec.M6.nan

---------------------------------------------------------------------------
(* StockDbUtils *)

\* the unique key of table RelativeStrength
SameKey(a, b) == a.ticker = b.ticker /\ a.date = b.date

\* variant: an upsert, the stored row of a duplicate key replaced
RECURSIVE insert_replace(_, _)
insert_replace(table, data) ==
    IF data = <<>> THEN table
    ELSE insert_replace({row \in table : ~SameKey(row, Head(data))} \cup {Head(data)},
                        Tail(data))

\* variant: the rows written one statement each, the run stopped after the first
insert_streamed(table, data) ==
    IF data = <<>> THEN table
    ELSE IF \E row \in table : SameKey(row, Head(data)) THEN table
         ELSE table \cup {Head(data)}

\* insert: create_many(data, skip_duplicates=True)
RECURSIVE insert(_, _)
insert(table, data) ==
    IF data = <<>> THEN table
    ELSE IF \E row \in table : SameKey(row, Head(data))
         THEN insert(table, Tail(data))
         ELSE insert(table \cup {Head(data)}, Tail(data))

---------------------------------------------------------------------------
(* TaAnalyzer (screener/ta_analyzer.py): bars, dates and float comparisons *)

\* TaMeasurements.list(): the values of the members, in declaration order
TaMeasurements ==
    <<"stage2", "minervini_5m", "minervini_1m", "seven_day_low_volatility",
      "recent_low_volume", "qull_m1", "qull_m3", "qull_m6">>

\* a member of the enum itself (TaMeasurements.STAGE2), which is not a str and
\* so is equal to no value: written as the value with the prefix "member:"
Members ==
    <<"member:stage2", "member:minervini_5m", "member:minervini_1m",
      "member:seven_day_low_volatility", "member:recent_low_volume",
      "member:qull_m1", "member:qull_m3", "member:qull_m6">>

\* the windows and thresholds of _cret_stage_2
Ma50 == 50
Ma150 == 150
Ma200 == 200
Rolling250 == 250
VolumeDays == 20
TrendDays == 20
DrawdownDays == 90
WaiverRs == 85
MinRs == 70
MinPrice == 5
MinVolume == 25000
\* _cret_minervini, _cret_days_vol, _cret_recent_low_volume, _cret_qull
SampleStep == 10
VolDays == 7
LowVolumeDays == 20
QullDays == 20
QullRs == 90
QullAdr == 4
QullVolumeUsd == 8000000

\* A run of `len` consecutive bars with the same prices and volume
Seg(len, adj, close, high, low, vol) ==
    [len |-> len, adj |-> adj, close |-> close, high |-> high, low |-> low, vol |-> vol]

\* The rows of one ticker in DailyKline: runs of bars, oldest first, on the
\* consecutive weekdays that end on day `last`
History(last, segs) == [last |-> last, segs |-> segs]

RECURSIVE Flatten(_)
Flatten(segs) ==
    IF segs = <<>> THEN <<>>
    ELSE [b \in 1..Head(segs).len |-> Head(segs)] \o Flatten(Tail(segs))

\* the date of the bar `back` bars before the bar of weekday `last`
BarDate(last, back) == last - (back + 2 * ((back + 4 - (last % 7)) \div 5))

\* the rows sorted by date: kline.sort_values(by="date", ascending=True)
Bars(h) ==
    LET flat == Flatten(h.segs)
        n == Len(flat)
    IN [b \in 1..n |->
          [date |-> BarDate(h.last, n - b), adjClose |-> flat[b].adj,
           close |-> flat[b].close, high |-> flat[b].high, low |-> flat[b].low,
           volume |-> flat[b].vol]]

\* kline[kline["date"] <= _date]
Upto(kline, date) ==
    SubSeq(kline, 1, Cardinality({b \in 1..Len(kline) : kline[b].date <= date}))

\* df.iloc[-n:]: the last n rows, or all of them when there are fewer
Tail_n(kline, n) ==
    IF Len(kline) <= n THEN kline ELSE SubSeq(kline, Len(kline) - n + 1, Len(kline))

\* one column of the frame
AdjCloseCol(kline) == [b \in 1..Len(kline) |-> kline[b].adjClose]
CloseCol(kline) == [b \in 1..Len(kline) |-> kline[b].close]
VolumeCol(kline) == [b \in 1..Len(kline) |-> kline[b].volume]

\* the sum, the maximum and the minimum of col[lo..hi], by halves
RECURSIVE SumRange(_, _, _)
SumRange(col, lo, hi) ==
    IF lo > hi THEN 0
    ELSE IF lo = hi THEN col[lo]
    ELSE SumRange(col, lo, (lo + hi) \div 2) + SumRange(col, (lo + hi) \div 2 + 1, hi)

RECURSIVE MaxRange(_, _, _)
MaxRange(col, lo, hi) ==
    IF lo = hi THEN col[lo]
    ELSE LET a == MaxRange(col, lo, (lo + hi) \div 2)
             b == MaxRange(col, (lo + hi) \div 2 + 1, hi)
         IN IF a > b THEN a ELSE b

RECURSIVE MinRange(_, _, _)
MinRange(col, lo, hi) ==
    IF lo = hi THEN col[lo]
    ELSE LET a == MinRange(col, lo, (lo + hi) \div 2)
             b == MinRange(col, (lo + hi) \div 2 + 1, hi)
         IN IF a < b THEN a ELSE b

\* Series.mean(): NaN for an empty series
Mean(col) == IF Len(col) = 0 THEN RNaN ELSE Rat(SumRange(col, 1, Len(col)), Len(col))

\* Series.rolling(n).mean() / .max() / .min() at row b: NaN before row n
RollingMean(col, n, b) == IF b < n THEN RNaN ELSE Rat(SumRange(col, b - n + 1, b), n)
RollingMax(col, n, b) == IF b < n THEN RNaN ELSE Rat(MaxRange(col, b - n + 1, b), 1)
RollingMin(col, n, b) == IF b < n THEN RNaN ELSE Rat(MinRange(col, b - n + 1, b), 1)

\* float comparisons: false when an operand is NaN
FLess(a, b) == ~a.nan /\ ~b.nan /\ a.n * b.d < b.n * a.d
FLeq(a, b) == ~a.nan /\ ~b.nan /\ a.n * b.d <= b.n * a.d

\* The calendar: day 0 is Monday 2022-01-03; the years of the model have 365 days
MonthDays == <<31, 28, 31, 30, 31, 30, 31, 31, 30, 31, 30, 31>>

RECURSIVE MonthOf(_, _)
MonthOf(doy, m) ==
    IF doy < MonthDays[m] THEN [m |-> m, d |-> doy + 1]
    ELSE MonthOf(doy - MonthDays[m], m + 1)

\* the (year, month, day) of a day number; years count from 2022
YMD(day) ==
    LET md == MonthOf((day + 2) % 365, 1)
    IN [y |-> (day + 2) \div 365, m |-> md.m, d |-> md.d]

DayNumber(y, m, d) == 365 * y + SumRange(MonthDays, 1, m - 1) + (d - 1) - 2

\* end_date - relativedelta(months=months): the day of the month is kept, or
\* cut to the last day of the month reached
MonthsBefore(day, months) ==
    LET c == YMD(day)
        total == 12 * c.y + (c.m - 1) - months
        m == (total % 12) + 1
        d == IF c.d > MonthDays[m] THEN MonthDays[m] ELSE c.d
    IN DayNumber(total \div 12, m, d)

---------------------------------------------------------------------------
(* TaAnalyzer: the criteria *)

\* an element of the list rs: an int, or None
PyNone == [none |-> TRUE, v |-> 0]
PyInt(v) == [none |-> FALSE, v |-> v]

\* self.rs = rs or [0, 0, 0, 0]; self.cret = cret or TaMeasurements.list()
DefaultRs == <<PyInt(0), PyInt(0), PyInt(0), PyInt(0)>>
TaAnalyzer(ticker, rs, cret) ==
    [made |-> TRUE, loaded |-> FALSE, ticker |-> ticker, kline |-> History(0, <<>>),
     rs |-> IF rs = <<>> THEN DefaultRs ELSE rs,
     cret |-> IF cret = <<>> THEN TaMeasurements ELSE cret]

\* the rolling columns, and latest = kline.iloc[-1]
MaAt(kline, n, b) == RollingMean(AdjCloseCol(kline), n, b)
Latest(kline) ==
    LET adj == AdjCloseCol(kline)
        b == Len(kline)
    IN [adjClose |-> Rat(adj[b], 1),
        ma50 |-> RollingMean(adj, Ma50, b),
        ma150 |-> RollingMean(adj, Ma150, b),
        ma200 |-> RollingMean(adj, Ma200, b),
        rolling_high |-> RollingMax(adj, Rolling250, b),
        rolling_low |-> RollingMin(adj, Rolling250, b)]

\* _avg_vol = int(kline["volume"].tail(20).mean())
AvgVol(kline) ==
    LET v == VolumeCol(Tail_n(kline, VolumeDays))
    IN SumRange(v, 1, Len(v)) \div Len(v)

\* the first row of ma200[-20:]
TrendFirst(kline) == IF Len(kline) <= TrendDays THEN 1 ELSE Len(kline) - TrendDays + 1

\* Series.cummax()
CumMax(col) == [b \in 1..Len(col) |-> MaxRange(col, 1, b)]

\* stock["drawdown"] = stock["close"] / stock["cummax"] - 1
Drawdown(stock, cummax) ==
    [b \in 1..Len(stock) |-> LET m == cummax[b] IN Rat(stock[b].close - m, m)]

RECURSIVE MinRat(_, _, _)
MinRat(col, lo, hi) ==
    IF lo = hi THEN col[lo]
    ELSE LET a == MinRat(col, lo, (lo + hi) \div 2)
             b == MinRat(col, (lo + hi) \div 2 + 1, hi)
         IN IF RLess(b, a) THEN b ELSE a

\* variant: cummax of close, the running maximum of the series that is divided
MaxDrawdownOfClose(kline) ==
    LET stock == Tail_n(kline, DrawdownDays)
        dd == Drawdown(stock, CumMax(CloseCol(stock)))
    IN MinRat(dd, 1, Len(dd))

\* stock = kline.iloc[-90:]; cummax of adjClose; max_drawdown = drawdown.min()
MaxDrawdown(kline) ==
    LET stock == Tail_n(kline, DrawdownDays)
        dd == Drawdown(stock, CumMax(AdjCloseCol(stock)))
    IN MinRat(dd, 1, Len(dd))

\* the comparisons of _cret_stage_2 that read the frame (a non-empty one)
Ma150AboveMa200(latest) == FLess(latest.ma200, latest.ma150)
c_1(latest) == FLess(latest.ma150, latest.adjClose)
c_3(kline, latest) == FLess(MaAt(kline, Ma200, TrendFirst(kline)), latest.ma200)
c_4(latest) == FLess(latest.ma150, latest.ma50)
c_5(latest) == FLess(RMul(latest.rolling_low, Rat(5, 4)), latest.adjClose)
c_6(latest) == FLess(RMul(latest.rolling_high, Rat(3, 4)), latest.adjClose)
c_8(latest) == FLess(latest.ma50, latest.adjClose)
c_9(latest) == FLeq(Rat(MinPrice, 1), latest.adjClose)
c_10(kline) == AvgVol(kline) >= MinVolume
c_12(kline) == ~RLess(MaxDrawdown(kline), Rat(0 - 35, 100))
\* the comparison of the line commented out: close <= ma50 * 1.3
ExtensionGuard(latest) == FLeq(latest.adjClose, RMul(latest.ma50, Rat(13, 10)))

\* the rows of df_last_n_months[["ma200"]].iloc[::10, :], as row numbers of kline
Samples(kline, months, now) ==
    LET start_date == MonthsBefore(now, months)
        W == {b \in 1..Len(kline) : kline[b].date >= start_date /\ kline[b].date <= now}
    IN IF W = {} THEN {}
       ELSE LET lo == CHOOSE b \in W : b - 1 \notin W
            IN {b \in W : ((b - lo) % SampleStep) = 0}

\* variant: is_monotonic_decreasing
cret_minervini_decreasing(kline, months, now) ==
    LET S == Samples(kline, months, now)
        ma200 == [b \in S |-> MaAt(kline, Ma200, b)]
    IN \A b \in S :
          LET m == ma200[b]
          IN ~m.nan /\ ((b + SampleStep \in S) => FLeq(ma200[b + SampleStep], m))

\* _cret_minervini: Series.is_monotonic_increasing is True on an empty series,
\* False when a value is NaN
cret_minervini(kline, months, now) ==
    LET S == Samples(kline, months, now)
        ma200 == [b \in S |-> MaAt(kline, Ma200, b)]
    IN \A b \in S :
          LET m == ma200[b]
          IN ~m.nan /\ ((b + SampleStep \in S) => FLeq(m, ma200[b + SampleStep]))

\* _cret_days_vol(days=7, vol=0.12): close.max() / close.min() <= 1 + vol
cret_days_vol(kline) ==
    LET c == CloseCol(Tail_n(kline, VolDays))
    IN IF Len(c) = 0 THEN FALSE
       ELSE 100 * MaxRange(c, 1, Len(c)) <= 112 * MinRange(c, 1, Len(c))

\* the comparison of _cret_recent_low_volume on the frame k = kline.tail(20)
LowVolume(k, days) ==
    LET latest == Mean(VolumeCol(Tail_n(k, days)))
    IN /\ FLess(latest, Mean(VolumeCol(Tail_n(k, 5))))
       /\ FLess(latest, Mean(VolumeCol(Tail_n(k, 10))))
       /\ FLess(latest, Mean(VolumeCol(Tail_n(k, 20))))

\* _cret_recent_low_volume: `if not kline.shape[0] < 20: return False`
cret_recent_low_volume(kline, days) ==
    LET k == Tail_n(kline, LowVolumeDays)
    IN IF ~(Len(k) < LowVolumeDays) THEN FALSE ELSE LowVolume(k, days)

RECURSIVE SumRatios(_, _)
SumRatios(k, b) ==
    IF b = 0 THEN Rat(0, 1) ELSE RAdd(Rat(k[b].high, k[b].low), SumRatios(k, b - 1))

\* adr = 100 * (mean(high / low) - 1) over the last 20 rows
Adr(kline) ==
    LET k == Tail_n(kline, QullDays)
    IN IF Len(k) = 0 THEN RNaN
       ELSE RMul(Rat(100, 1), RAdd(RDiv(SumRatios(k, Len(k)), Rat(Len(k), 1)), Rat(0 - 1, 1)))

\* mean(volume * close) over the last 20 rows
MeanVolumeUsd(kline) ==
    LET k == Tail_n(kline, QullDays)
    IN Mean([b \in 1..Len(k) |-> k[b].volume * k[b].close])

\* What the criteria read off the frame kline: the comparisons of
\* _cret_stage_2, and the values of the criteria that read neither rs nor the
\* wall clock; last_date is the date of its last row
FrameFacts(kline) ==
    IF Len(kline) = 0
    THEN [rows |-> 0, last_date |-> 0 - 1, c_1 |-> FALSE, ma150_above_ma200 |-> FALSE, c_3 |-> FALSE,
          c_4 |-> FALSE, c_5 |-> FALSE, c_6 |-> FALSE, c_8 |-> FALSE, c_9 |-> FALSE,
          c_10 |-> FALSE, c_12 |-> FALSE, guard |-> FALSE,
          days_vol |-> cret_days_vol(kline),
          low_volume |-> cret_recent_low_volume(kline, 1),
          adr_low |-> FLess(Adr(kline), Rat(QullAdr, 1)),
          usd_low |-> FLess(MeanVolumeUsd(kline), Rat(QullVolumeUsd, 1))]
    ELSE LET latest == Latest(kline)
         IN [rows |-> Len(kline),
             last_date |-> kline[Len(kline)].date,
             c_1 |-> c_1(latest),
             ma150_above_ma200 |-> Ma150AboveMa200(latest),
             c_3 |-> c_3(kline, latest),
             c_4 |-> c_4(latest),
             c_5 |-> c_5(latest),
             c_6 |-> c_6(latest),
             c_8 |-> c_8(latest),
             c_9 |-> c_9(latest),
             c_10 |-> c_10(kline),
             c_12 |-> c_12(kline),
             guard |-> ExtensionGuard(latest),
             days_vol |-> cret_days_vol(kline),
             low_volume |-> cret_recent_low_volume(kline, 1),
             adr_low |-> FLess(Adr(kline), Rat(QullAdr, 1)),
             usd_low |-> FLess(MeanVolumeUsd(kline), Rat(QullVolumeUsd, 1))]

\* the values of the criteria that read the wall clock
TrendFacts(kline, now) ==
    [minervini_5m |-> cret_minervini(kline, 5, now),
     minervini_1m |-> cret_minervini(kline, 1, now)]

---------------------------------------------------------------------------
(* TaAnalyzer: the price histories of the model *)

\* the volume of a liquid ticker
Liquid == 1000 * 1000

\* a run of bars at price p: close = adjClose = low, high 5% above
Flat(len, p, vol) == Seg(len, p, p, p + p \div 20, p, vol)

\* a long base at 70, then 30 bars at 100, the last one on lower volume
Uptrend ==
    History(Today0, <<Flat(300, 70, Liquid), Flat(29, 100, Liquid),
                      Flat(1, 100, Liquid - 100000)>>)
\* the step up only 10 bars ago: the close is more than 1.3 times MA50
Extended == History(Today0, <<Flat(250, 70, Liquid), Flat(10, 100, Liquid)>>)
\* MA150 below MA200, every other average in order
Waived ==
    History(Today0, <<Flat(40, 70, Liquid), Flat(20, 40, Liquid), Flat(50, 120, Liquid),
                      Flat(120, 70, Liquid), Flat(30, 100, Liquid)>>)
\* from 100 down to 64 (and to 65), then back to 90
Dip36 == History(Today0, <<Flat(200, 100, Liquid), Flat(30, 64, Liquid), Flat(30, 90, Liquid)>>)
Dip35 == History(Today0, <<Flat(200, 100, Liquid), Flat(30, 65, Liquid), Flat(30, 90, Liquid)>>)
\* the close falls from 100 to 64 while the adjusted close rises from 60 to 64
Adjusted ==
    History(Today0, <<Seg(230, 60, 100, 105, 100, Liquid), Seg(30, 64, 64, 67, 64, Liquid)>>)
\* 100 bars, 19 bars, 5 bars, no row
Short100 == History(Today0, <<Flat(70, 70, Liquid), Flat(30, 100, Liquid)>>)
Short19 == History(Today0, <<Flat(18, 100, Liquid), Flat(1, 100, Liquid - 100000)>>)
Fresh == History(Today0, <<Flat(5, 100, Liquid)>>)
Empty == History(Today0, <<>>)
\* a long top at 100, then 30 bars at 70 in a range of 1 in 70
Downtrend ==
    History(Today0, <<Flat(300, 100, Liquid), Seg(30, 70, 70, 71, 70, Liquid)>>)
\* one bar at 400 that leaves the MA200 window 19 bars before the last bar
Spike == History(Today0, <<Flat(10, 100, Liquid), Flat(1, 400, Liquid), Flat(219, 100, Liquid)>>)
\* 20,000 shares a day
Thin == History(Today0, <<Flat(300, 70, 20000), Flat(30, 100, 20000)>>)

\* Uptrend without its bars dated after Today0 - 7
UptrendCut == History(Today0 - 7, <<Flat(300, 70, Liquid), Flat(25, 100, Liquid)>>)

TaHistories ==
    {Uptrend, Extended, Waived, Dip36, Dip35, Adjusted, Short100, Short19, Fresh,
     Empty, Downtrend, Spike, Thin, UptrendCut}

\* A content of the table DailyKline: the histories a, b, c given to the
\* tickers in turn
Klines(a, b, c) ==
    [t \in Tickers |-> CASE t % 3 = 1 -> a [] t % 3 = 2 -> b [] OTHER -> c]
KlineTables ==
    {Klines(Uptrend, Empty, Extended),
     Klines(Waived, Dip36, Dip35),
     Klines(Adjusted, Short100, Short19),
     Klines(Fresh, Downtrend, Spike),
     Klines(Thin, Uptrend, Downtrend),
     Klines(Empty, Empty, Empty)}

\* the argument rs: None, or [rscore, M1, M3, M6]
NoRs == <<>>
Leader == <<PyInt(95), PyInt(95), PyInt(95), PyInt(95)>>
Mixed == <<PyInt(80), PyInt(91), PyInt(90), PyNone>>
Laggard == <<PyInt(70), PyInt(0), PyInt(0), PyInt(0)>>
Unscored == <<PyNone, PyInt(95), PyInt(95), PyInt(95)>>

\* the argument cret: none, values of the enumeration, an unknown name, a member
NoCret == <<>>
NotStage2 ==
    <<"minervini_5m", "minervini_1m", "recent_low_volume", "qull_m1", "qull_m3", "qull_m6">>

\* the arguments (rs, cret) of the constructor
TaArguments ==
    {<<NoRs, NoCret>>, <<Leader, NoCret>>, <<Mixed, NoCret>>, <<Unscored, NoCret>>,
     <<Laggard, <<"stage2">>>>, <<Leader, NotStage2>>,
     <<Leader, <<"seven_day_low_volatility", "unknown">>>>,
     <<Mixed, <<"member:stage2">>>>}

\* the wall-clock days of the model
Days == Today0..(Today0 + MaxTicks)

\* the as-of dates of a call on day now: today (no date given) or a given Wednesday
AsOfDates(now) == {now} \cup {Today0 - 7 * w : w \in 0..MaxWeeksBack}

\* the frame of get_result: kline[kline["date"] <= _date], and what the
\* criteria read off it; computed once per history, as-of date and day
Dates == UNION {AsOfDates(d) : d \in Days}
FrameTable ==
    {<<h, date, FrameFacts(Upto(Bars(h), date))>> : h \in TaHistories, date \in Dates}
TrendTable ==
    UNION {{<<h, date, now, TrendFacts(Upto(Bars(h), date), now)>> :
                h \in TaHistories, date \in AsOfDates(now)} : now \in Days}
Facts(h, date, now) ==
    (CHOOSE e \in FrameTable : e[1] = h /\ e[2] = date)[3]
    @@ (CHOOSE e \in TrendTable : e[1] = h /\ e[2] = date /\ e[3] = now)[4]

---------------------------------------------------------------------------
(* TaAnalyzer: get_result *)

\* variant: the comparison waived below the threshold instead of from it on
c_2_below(f, rs) == IF rs[1].v < WaiverRs THEN TRUE ELSE f.ma150_above_ma200

\* the sub-conditions of _cret_stage_2 that read rs
c_2(f, rs) == IF rs[1].v < WaiverRs THEN f.ma150_above_ma200 ELSE TRUE
c_7(rs) == rs[1].v > MinRs
\* c_11 = True: the extension guard is commented out
c_11 == TRUE

\* a returned value, and a raised exception
Returned(v) == [raised |-> FALSE, v |-> v]
Raised == [raised |-> TRUE, v |-> FALSE]

\* variant: the extension guard of the docstring in force (close <= ma50 * 1.3)
cret_stage_2_guarded(f, rs) ==
    IF f.rows = 0 \/ rs[1].none THEN Raised
    ELSE Returned(/\ f.c_1 /\ c_2(f, rs) /\ f.c_3 /\ f.c_4 /\ f.c_5 /\ f.c_6
                  /\ c_7(rs) /\ f.c_8 /\ f.c_9 /\ f.c_10 /\ f.guard /\ f.c_12)

\* _cret_stage_2: int() of the NaN mean volume raises on an empty frame,
\* `None < 85` raises;
\* else sum([c_1, ..., c_12]) >= 12
cret_stage_2(f, rs) ==
    IF f.rows = 0 \/ rs[1].none THEN Raised
    ELSE Returned(/\ f.c_1 /\ c_2(f, rs) /\ f.c_3 /\ f.c_4 /\ f.c_5 /\ f.c_6
                  /\ c_7(rs) /\ f.c_8 /\ f.c_9 /\ f.c_10 /\ c_11 /\ f.c_12)

\* the element of rs that months selects
QullRsOf(rs, months) == CASE months = 1 -> rs[2] [] months = 3 -> rs[3] [] OTHER -> rs[4]

\* _cret_qull: each `if x < limit: return False` lets a NaN x through
cret_qull(f, months, rs) ==
    IF QullRsOf(rs, months).none THEN FALSE
    ELSE IF QullRsOf(rs, months).v <= QullRs THEN FALSE
    ELSE IF f.adr_low THEN FALSE
    ELSE IF f.usd_low THEN FALSE
    ELSE TRUE

\* one pass of `for cret in self.cret`: the value for a known name, else
\* raise ValueError("Unknown criteria")
Criterion(name, f, rs) ==
    CASE name = "stage2" -> cret_stage_2(f, rs)
      [] name = "minervini_5m" -> Returned(f.minervini_5m)
      [] name = "minervini_1m" -> Returned(f.minervini_1m)
      [] name = "seven_day_low_volatility" -> Returned(f.days_vol)
      [] name = "recent_low_volume" -> Returned(f.low_volume)
      [] name = "qull_m1" -> Returned(cret_qull(f, 1, rs))
      [] name = "qull_m3" -> Returned(cret_qull(f, 3, rs))
      [] name = "qull_m6" -> Returned(cret_qull(f, 6, rs))
      [] OTHER -> Raised

\* a result map: criterion name -> bool
EmptyMap == [n \in {} |-> FALSE]
Put(map, name, v) == [n \in DOMAIN map \cup {name} |-> IF n = name THEN v ELSE map[n]]

RECURSIVE Evaluate(_, _, _, _)
Evaluate(cret, f, rs, result) ==
    IF cret = <<>> THEN [raised |-> FALSE, result |-> result]
    ELSE LET r == Criterion(Head(cret), f, rs)
         IN IF r.raised THEN [raised |-> TRUE, result |-> EmptyMap]
            ELSE Evaluate(Tail(cret), f, rs, Put(result, Head(cret), r.v))

\* date_included = kline[kline["date"] == _date]: the frame of the bars dated
\* <= date ends with a bar of that date
date_included(f, date) == f.last_date = date

\* get_result(date) run on wall-clock day now; date = now when no date is
\* given; self.kline is None until get_kline has loaded it
get_result(obj, date, now) ==
    IF ~obj.loaded THEN [raised |-> TRUE, result |-> EmptyMap]
    ELSE Evaluate(obj.cret, Facts(obj.kline, date, now), obj.rs, EmptyMap)

---------------------------------------------------------------------------
(* The state machine *)

\* the orders in which the Tickers table may be read: ascending and descending
StockOrders ==
    {[p \in 1..MaxTickers |-> p], [p \in 1..MaxTickers |-> MaxTickers + 1 - p]}

NoResult == [set |-> FALSE, ticker |-> 0, date |-> 0, none |-> TRUE, v |-> RNaN]

\* no TaAnalyzer constructed, no get_result called
NoAnalyzer ==
    [made |-> FALSE, loaded |-> FALSE, ticker |-> 0, kline |-> History(0, <<>>),
     rs |-> <<>>, cret |-> <<>>]
NoCall ==
    [called |-> FALSE, loaded |-> FALSE, date |-> 0, now |-> 0, warned |-> FALSE,
     raised |-> FALSE, result |-> EmptyMap]

\* DailyScreener(): stocks None, succ_tickers {}, rs_dict {}
NoScreener == [made |-> FALSE, stocks |-> <<>>, succ_tickers |-> EmptyMap, rs_dict |-> EmptyMap]
NoRun ==
    [pc |-> "idle", i |-> 0, summary |-> <<>>, error |-> "none", saved |-> 0,
     rs_read |-> {}, read_date |-> 0]

\* read_first not called; main() not started; no wrapped function called
NoRead == [called |-> FALSE, kind |-> "", rows |-> 0, none |-> TRUE, id |-> 0]
NoMain ==
    [pc |-> "idle", entry |-> "", day |-> 0, ran |-> <<>>, msgs |-> <<>>,
     work_failed |-> FALSE]
NoRetry ==
    [pc |-> "idle", async |-> FALSE, retries |-> 0, failure_return_types |-> <<>>,
     i |-> 0, calls |-> <<>>, slept |-> 0, last_result |-> "None",
     last_exception |-> "None", out |-> "None"]

\* the calculator and its table before any run
RsIdle ==
    /\ rs_db = {}
    /\ stocks = <<>>
    /\ pc = "idle"
    /\ start = 0
    /\ end = 0
    /\ i = 0
    /\ combined = <<>>
    /\ j = 0
    /\ merged = <<>>
    /\ error = "none"
    /\ succ_count = 0
    /\ fail_count = 0
    /\ runs = 0
    /\ hist = {}
    /\ single_rs = NoResult

\* no analyzer and no screener
TaIdle == ta = NoAnalyzer /\ ta_out = NoCall /\ ta_prev = NoCall
DsIdle == ds = NoScreener /\ ds_run = NoRun /\ report_db = <<>>
RunIdle == report_read = NoRead /\ main = NoMain /\ retry = NoRetry

Init ==
    /\ today = Today0
    /\ kline_db \in Universes
    /\ rs_db = {}
    /\ stocks = <<>>
    /\ pc = "idle"
    /\ start = 0
    /\ end = 0
    /\ i = 0
    /\ combined = <<>>
    /\ j = 0
    /\ merged = <<>>
    /\ error = "none"
    /\ succ_count = 0
    /\ fail_count = 0
    /\ runs = 0
    /\ hist = {}
    /\ single_rs = NoResult
    /\ TaIdle
    /\ DsIdle
    /\ RunIdle

Resting == pc \in {"idle", "done", "aborted"}

\* midnight passes (between runs: a batch run ends on the day it started)
Tick ==
    /\ Resting
    /\ today < Today0 + MaxTicks
    /\ today' = today + 1
    /\ UNCHANGED <<kline_db, rs_db, stocks, pc, start, end, i, combined, j, merged,
                   error, succ_count, fail_count, runs, hist, single_rs>>
    /\ UNCHANGED <<ta_vars, ds_vars, run_vars>>

\* a new process: RelativeStrengthCalculator() and initialize() read the universe
initialize ==
    /\ \/ pc = "idle" /\ stocks = <<>>
       \/ pc \in {"done", "aborted"}
    /\ runs < MaxRuns
    /\ \E order \in StockOrders : stocks' = order
    /\ pc' = "idle"
    /\ start' = 0
    /\ end' = 0
    /\ i' = 0
    /\ combined' = <<>>
    /\ j' = 0
    /\ merged' = <<>>
    /\ error' = "none"
    /\ succ_count' = 0
    /\ fail_count' = 0
    /\ single_rs' = NoResult
    /\ UNCHANGED <<today, kline_db, rs_db, runs, hist>>
    /\ UNCHANGED <<ta_vars, ds_vars, run_vars>>

\* batch_get_all_rs(s, e) up to its first await
BatchStart(s, e) ==
    /\ pc \in {"idle", "done"}
    /\ stocks # <<>>
    /\ runs < MaxRuns
    /\ start' = s
    /\ end' = e
    /\ i' = 1
    /\ combined' = <<>>
    /\ j' = 0
    /\ merged' = <<>>
    /\ error' = "none"
    /\ succ_count' = 0
    /\ fail_count' = 0
    /\ runs' = runs + 1
    /\ pc' = "loop"
    /\ single_rs' = NoResult
    /\ UNCHANGED <<today, kline_db, rs_db, stocks, hist>>
    /\ UNCHANGED <<ta_vars, ds_vars, run_vars>>

\* updater/get_rs.py: update_all_rs(), the date defaulting to today
update_all_rs ==
    BatchStart(today, today)

\* updater/calc_hist_rs.py: update_all_rs(_date) for a trading date <= today
\* that has no row in the table
calc_hist_rs ==
    \E date \in (today - MaxLookback)..today :
        /\ InCalendar(date)
        /\ \A row \in rs_db : row.date # date
        /\ BatchStart(date, date)

\* updater/initialize.py: batch_get_all_rs(start, today) over a range of dates
initialize_main ==
    BatchStart(today - MaxLookback, today)

\* one iteration of `for ticker in self.stocks`, the read of its kline raising:
\* the exception leaves batch_get_all_rs, whose frames are lost; i keeps the
\* turn that raised
batch_get_all_rs_raise ==
    /\ pc = "loop"
    /\ pc' = "aborted"
    /\ error' = "fetch"
    /\ combined' = <<>>
    /\ UNCHANGED <<today, kline_db, rs_db, stocks, start, end, i, j, merged,
                   succ_count, fail_count, runs, hist, single_rs>>
    /\ UNCHANGED <<ta_vars, ds_vars, run_vars>>

\* one iteration of `for ticker in self.stocks`
batch_get_all_rs_loop ==
    /\ pc = "loop"
    /\ LET packed == batch_get_rs(kline_db[stocks[i]], start, end, today)
           cmb == IF packed.none THEN combined
                  ELSE Append(combined, [ticker |-> stocks[i], rows |-> packed.rows])
       IN /\ combined' = cmb
          /\ i' = i + 1
          /\ IF i < Len(stocks) THEN pc' = "loop" /\ j' = j
             ELSE IF CombinedIndex(cmb) = {} THEN pc' = "done" /\ j' = j
             ELSE pc' = "rank" /\ j' = 1
    /\ UNCHANGED <<today, kline_db, rs_db, stocks, start, end, merged, error,
                   succ_count, fail_count, runs, hist, single_rs>>
    /\ UNCHANGED <<ta_vars, ds_vars, run_vars>>

\* the score snapshot of date d: the scores of every ticker that has a row
ColumnOf(cmb, t) == CHOOSE c \in 1..Len(cmb) : cmb[c].ticker = t
Snapshot(cmb, d) ==
    [t \in {cmb[c].ticker : c \in {x \in 1..Len(cmb) : d \in DOMAIN cmb[x].rows}} |->
        cmb[ColumnOf(cmb, t)].rows[d]]

\* the order of the columns of the combined frames
ColumnOrder(cmb) == [c \in 1..Len(cmb) |-> cmb[c].ticker]

Range(seq) == {seq[p] : p \in 1..Len(seq)}

\* one iteration of `for index, row in combined_rs.iterrows()`
batch_get_all_rs_rank ==
    /\ pc = "rank"
    /\ LET dates == Ascending(CombinedIndex(combined))
           d == dates[j]
           recs == Merged(combined, d)
           next == IF j < Len(dates) THEN "rank" ELSE "done"
       IN /\ merged' = recs
          /\ hist' = IF \E h \in hist : h.date = d /\ h.snap = Snapshot(combined, d)
                      THEN hist
                      ELSE hist \cup {[date |-> d, snap |-> Snapshot(combined, d),
                                        order |-> ColumnOrder(combined), rows |-> Range(recs)]}
          /\ IF recs = <<>>
             THEN /\ fail_count' = fail_count + 1
                  /\ j' = j + 1
                  /\ pc' = next
                  /\ UNCHANGED <<rs_db, succ_count, error>>
             ELSE \E accepted \in IF \E p \in 1..Len(recs) : HasMissing(recs[p])
                                  THEN BOOLEAN ELSE {TRUE} :
                    IF accepted
                    THEN /\ rs_db' = insert(rs_db, recs)
                         /\ succ_count' = succ_count + 1
                         /\ j' = j + 1
                         /\ pc' = next
                         /\ UNCHANGED <<fail_count, error>>
                    ELSE /\ pc' = "aborted"
                         /\ error' = "insert"
                         /\ UNCHANGED <<rs_db, succ_count, fail_count, j>>
    /\ UNCHANGED <<today, kline_db, stocks, start, end, i, combined, runs, single_rs>>
    /\ UNCHANGED <<ta_vars, ds_vars, run_vars>>

\* get_rs(ticker, date) on an initialized calculator; it reads nothing a batch
\* run writes, so it is queried once, before the first run
GetRs ==
    /\ pc = "idle"
    /\ stocks # <<>>
    /\ runs = 0
    /\ ~single_rs.set
    /\ \E t \in Tickers, date \in (today - MaxLookback)..today :
         LET r == get_rs(kline_db[t], date)
         IN single_rs' = [set |-> TRUE, ticker |-> t, date |-> date, none |-> r.none, v |-> r.v]
    /\ UNCHANGED <<today, kline_db, rs_db, stocks, pc, start, end, i, combined, j, merged,
                   error, succ_count, fail_count, runs, hist>>
    /\ UNCHANGED <<ta_vars, ds_vars, run_vars>>

Next ==
    \/ Tick
    \/ initialize
    \/ update_all_rs
    \/ calc_hist_rs
    \/ initialize_main
    \/ batch_get_all_rs_raise
    \/ batch_get_all_rs_loop
    \/ batch_get_all_rs_rank
    \/ GetRs

Spec == Init /\ [][Next]_vars

---------------------------------------------------------------------------
(* TaAnalyzer: the calls of one analyzer *)

\* The analyzer and the screener share no state: a behaviour drives one of
\* them.

\* ta = TaAnalyzer(ticker, rs, cret)
TaNew ==
    /\ ~ta.made
    /\ ~ds.made
    /\ \E t \in Tickers, a \in TaArguments :
          ta' = TaAnalyzer(t, a[1], a[2])
    /\ UNCHANGED <<run_vars, today, kline_db, rs_vars, ta_out, ta_prev, ds_vars>>

\* await ta.get_kline(): kline["date"] raises KeyError when the ticker has no row
TaGetKline ==
    /\ ta.made
    /\ ~ta.loaded
    /\ kline_db[ta.ticker].segs # <<>>
    /\ ta' = [ta EXCEPT !.loaded = TRUE, !.kline = kline_db[ta.ticker]]
    /\ UNCHANGED <<run_vars, today, kline_db, rs_vars, ta_out, ta_prev, ds_vars>>

\* ta.get_result(date); warned: logging.warning("... is not included in kline")
TaGetResult ==
    /\ ta.made
    /\ \E date \in AsOfDates(today) :
          LET r == get_result(ta, date, today)
          IN ta_out' = [called |-> TRUE, loaded |-> ta.loaded, date |-> date,
                        now |-> today,
                        warned |-> ta.loaded
                                   /\ ~date_included(Facts(ta.kline, date, today), date),
                        raised |-> r.raised, result |-> r.result]
    /\ ta_prev' = ta_out
    /\ UNCHANGED <<run_vars, today, kline_db, rs_vars, ta, ds_vars>>

---------------------------------------------------------------------------
(* DailyScreener (screener/daily_screener.py) *)

\* the content of rs_dict: ticker -> [rscore, M1, M3, M6]
RsDicts ==
    {[t \in Tickers |-> Leader],
     [t \in {u \in Tickers : u % 3 # 2} |-> IF t % 3 = 1 THEN Leader ELSE Mixed],
     [t \in Tickers |-> Unscored]}

\* ds = DailyScreener()
DailyScreener ==
    /\ ~ds.made
    /\ ~ta.made
    /\ ds' = [made |-> TRUE, stocks |-> <<>>, succ_tickers |-> EmptyMap,
              rs_dict |-> EmptyMap]
    /\ UNCHANGED <<run_vars, today, kline_db, rs_vars, ta_vars, ds_run, report_db>>

\* a caller that sets ds.stocks and ds.rs_dict itself, which the test
\* `if not self.stocks` of screen_all provides for
ds_preset ==
    /\ ds.made
    /\ ds_run.pc = "idle"
    /\ ds.stocks = <<>>
    /\ \E order \in StockOrders, rs_dict \in RsDicts :
          ds' = [ds EXCEPT !.stocks = order, !.rs_dict = rs_dict]
    /\ UNCHANGED <<run_vars, today, kline_db, rs_vars, ta_vars, ds_run, report_db>>

\* initialize() of a screener: the rows of RelativeStrength of today are read,
\* then the selection of the columns raises
relative_strength(table, now) == {row.ticker : row \in {r \in table : r.date = now}}
Initialized(run, table, now) ==
    [run EXCEPT !.pc = "aborted", !.error = "KeyError",
                !.rs_read = relative_strength(table, now), !.read_date = now]

\* await ds.initialize(): relative_strength[["rscore", "M1, M3", "M6"]] names a
\* column that no frame has, and raises KeyError
ds_initialize ==
    /\ ds.made
    /\ ds_run.pc = "idle"
    /\ ds_run' = Initialized(ds_run, rs_db, today)
    /\ UNCHANGED <<run_vars, today, kline_db, rs_vars, ta_vars, ds, report_db>>

\* screen_stock(ticker): the dict of get_result, or {} for any exception
screen_stock(ticker, rs_dict, klines, now) ==
    LET rs == IF ticker \in DOMAIN rs_dict THEN rs_dict[ticker] ELSE <<>>
        new == TaAnalyzer(ticker, rs, <<>>)
        obj == [new EXCEPT !.loaded = TRUE, !.kline = klines[ticker]]
        r == get_result(obj, now, now)
    IN IF klines[ticker].segs = <<>> \/ r.raised THEN EmptyMap ELSE r.result

\* await ds.screen_all(), up to the loop: `if not self.stocks` calls
\* initialize, which raises
screen_all ==
    /\ ds.made
    /\ ds_run.pc = "idle"
    /\ ds_run' = IF ds.stocks = <<>>
                 THEN Initialized(ds_run, rs_db, today)
                 ELSE [ds_run EXCEPT !.pc = "loop", !.i = 1, !.summary = <<>>]
    /\ UNCHANGED <<run_vars, today, kline_db, rs_vars, ta_vars, ds, report_db>>

\* variant: a ticker without a result gets a row of False
screen_all_loop_keeping ==
    /\ ds_run.pc = "loop"
    /\ LET ticker == ds.stocks[ds_run.i]
           result == screen_stock(ticker, ds.rs_dict, kline_db, today)
           row == [ticker |-> ticker,
                   result |-> IF result = EmptyMap
                              THEN [n \in Range(TaMeasurements) |-> FALSE]
                              ELSE result]
       IN ds_run' = [ds_run EXCEPT
                        !.summary = Append(@, row),
                        !.i = @ + 1,
                        !.pc = IF ds_run.i < Len(ds.stocks) THEN "loop" ELSE "summary"]
    /\ UNCHANGED <<run_vars, today, kline_db, rs_vars, ta_vars, ds, report_db>>

\* one iteration of `for ticker in self.stocks`: `if not _result: continue`
screen_all_loop ==
    /\ ds_run.pc = "loop"
    /\ LET ticker == ds.stocks[ds_run.i]
           result == screen_stock(ticker, ds.rs_dict, kline_db, today)
           row == [ticker |-> ticker, result |-> result]
       IN ds_run' = [ds_run EXCEPT
                        !.summary = IF result = EmptyMap THEN @ ELSE Append(@, row),
                        !.i = @ + 1,
                        !.pc = IF ds_run.i < Len(ds.stocks) THEN "loop" ELSE "summary"]
    /\ UNCHANGED <<run_vars, today, kline_db, rs_vars, ta_vars, ds, report_db>>

\* variant: the index of summary, whatever the value of the column
TickerList_all(summary, kind) ==
    [p \in 1..Len(summary) |-> summary[p].ticker]

\* summary[summary[kind] == True].index.tolist()
TickerList(summary, kind) ==
    LET hit == SelectSeq(summary, LAMBDA row : row.result[kind])
    IN [p \in 1..Len(hit) |-> hit[p].ticker]

\* the end of screen_all: summary.set_index("ticker") raises KeyError on the
\* frame without a row; else one list per column
screen_all_summary ==
    /\ ds_run.pc = "summary"
    /\ IF ds_run.summary = <<>>
       THEN /\ ds_run' = [ds_run EXCEPT !.pc = "aborted", !.error = "KeyError"]
            /\ UNCHANGED ds
       ELSE /\ ds' = [ds EXCEPT !.succ_tickers =
                        [kind \in DOMAIN ds_run.summary[1].result |->
                            TickerList(ds_run.summary, kind)]]
            /\ ds_run' = [ds_run EXCEPT !.pc = "done"]
    /\ UNCHANGED <<run_vars, today, kline_db, rs_vars, ta_vars, report_db>>

\* the kinds of succ_tickers in the order of its keys, the order of cret
RECURSIVE Kinds(_, _)
Kinds(succ_tickers, names) ==
    IF names = <<>> THEN <<>>
    ELSE IF Head(names) \in DOMAIN succ_tickers
         THEN <<Head(names)>> \o Kinds(succ_tickers, Tail(names))
         ELSE Kinds(succ_tickers, Tail(names))

\* await ds.save(): nothing when succ_tickers is empty, else one row of the
\* table Report per kind
save ==
    /\ ds.made
    /\ ds_run.pc \in {"idle", "done"}
    /\ ds_run.saved < MaxSaves
    /\ ds_run' = [ds_run EXCEPT !.saved = @ + 1]
    /\ LET kinds == Kinds(ds.succ_tickers, TaMeasurements)
       IN report_db' = report_db \o
            [p \in 1..Len(kinds) |->
                [date |-> today, kind |-> kinds[p], data |-> ds.succ_tickers[kinds[p]]]]
    /\ UNCHANGED <<run_vars, today, kline_db, rs_vars, ta_vars, ds>>

\* the kinds a consumer reads: tos_integration.py reads "stage2" and "qull_m1"
\* among others
ReadKinds == {"stage2", "qull_m1"}

\* the rows of kind, as positions of the table (the position is the row's id)
RowsOf(table, kind) == {p \in 1..Len(table) : table[p].kind = kind}

\* find_first(where={"kind": kind}, order={"date": "desc"}): the rows a query
\* sorted by date alone may return first, those of the latest date
LatestByDate(table, kind) ==
    {p \in RowsOf(table, kind) : \A q \in RowsOf(table, kind) : table[q].date <= table[p].date}

\* await StockDbUtils.read_first(DbTable.REPORT, where={"kind": kind}): None
\* without a row, else the dict of the row found
read_first ==
    /\ ds.made
    /\ ds_run.pc \in {"idle", "done"}
    /\ \E kind \in ReadKinds :
          IF RowsOf(report_db, kind) = {}
          THEN report_read' = [called |-> TRUE, kind |-> kind, rows |-> Len(report_db),
                               none |-> TRUE, id |-> 0]
          ELSE \E p \in LatestByDate(report_db, kind) :
                  report_read' = [called |-> TRUE, kind |-> kind, rows |-> Len(report_db),
                                  none |-> FALSE, id |-> p]
    /\ UNCHANGED <<main, retry, today, kline_db, rs_vars, ta_vars, ds_vars>>

ScreenerInit ==
    /\ today = Today0
    /\ kline_db \in KlineTables
    /\ RsIdle
    /\ TaIdle
    /\ DsIdle
    /\ RunIdle

ScreenerNext ==
    \/ TaNew
    \/ TaGetKline
    \/ TaGetResult
    \/ DailyScreener
    \/ ds_preset
    \/ ds_initialize
    \/ screen_all
    \/ screen_all_loop
    \/ screen_all_summary
    \/ save
    \/ read_first
    \/ Tick

ScreenerSpec == ScreenerInit /\ [][ScreenerNext]_vars

---------------------------------------------------------------------------
(* retry_decorator and async_retry_decorator (src/common.py) *)

\* what one call of the wrapped function does: it returns a value or raises an
\* exception
Results == {"None", "False", "0", "data"}
Exceptions == {"E1", "E2"}
Outcomes ==
    [raised : {FALSE}, v : Results] \cup [raised : {TRUE}, v : Exceptions]

\* the lists passed as failure_return_types: [] (fundamentals.py), the default
\* [None], and [None, False]
FailureTypes == {<<>>, <<"None">>, <<"None", "False">>}

\* a == b in Python: 0 == False
PyEq(a, b) == a = b \/ {a, b} = {"0", "False"}

\* result in failure_return_types
In(result, types) == \E p \in 1..Len(types) : PyEq(types[p], result)

\* variant: the outcome of the last attempt alone decides
AfterLoopLastAttempt(r) ==
    IF r.calls # <<>> /\ r.calls[Len(r.calls)].raised
    THEN [r EXCEPT !.pc = "raised", !.out = r.last_exception]
    ELSE [r EXCEPT !.pc = "returned", !.out = r.last_result]

\* after the loop: `if last_exception is not None: raise last_exception`, else
\* `return last_result`
AfterLoop(r) ==
    IF r.last_exception # "None"
    THEN [r EXCEPT !.pc = "raised", !.out = r.last_exception]
    ELSE [r EXCEPT !.pc = "returned", !.out = r.last_result]

\* wrapper(*args, **kwargs) up to the loop; range(retries) is empty for
\* retries = 0
Wrapped(async, retries, types) ==
    LET r == [pc |-> "loop", async |-> async, retries |-> retries,
              failure_return_types |-> types, i |-> 0, calls |-> <<>>, slept |-> 0,
              last_result |-> "None", last_exception |-> "None", out |-> "None"]
    IN IF retries = 0 THEN AfterLoop(r) ELSE r

\* one pass of `for i in range(retries)` with the outcome o of the call, and
\* what follows the loop after the last pass
Attempt(r, o) ==
    LET called == [r EXCEPT !.calls = Append(@, o)]
    IN IF ~o.raised /\ ~In(o.v, r.failure_return_types)
       THEN [called EXCEPT !.last_result = o.v, !.pc = "returned", !.out = o.v]
       ELSE LET failed == [called EXCEPT
                              !.last_result = IF o.raised THEN @ ELSE o.v,
                              !.last_exception = IF o.raised THEN o.v ELSE @,
                              !.slept = @ + 1,
                              !.i = @ + 1]
            IN IF failed.i < failed.retries THEN failed ELSE AfterLoop(failed)

\* a call of a function decorated with @retry_decorator(retries, delay, types)
retry_decorator ==
    /\ retry.pc = "idle"
    /\ \E retries \in 0..MaxRetries, types \in FailureTypes :
          retry' = Wrapped(FALSE, retries, types)
    /\ UNCHANGED <<report_read, main, today, kline_db, rs_vars, ta_vars, ds_vars>>

\* a call of a coroutine decorated with @async_retry_decorator(...)
async_retry_decorator ==
    /\ retry.pc = "idle"
    /\ \E retries \in 0..MaxRetries, types \in FailureTypes :
          retry' = Wrapped(TRUE, retries, types)
    /\ UNCHANGED <<report_read, main, today, kline_db, rs_vars, ta_vars, ds_vars>>

\* one iteration of the loop of the sync wrapper: func(*args, **kwargs), then
\* time.sleep(delay) when it failed
wrapper ==
    /\ retry.pc = "loop"
    /\ ~retry.async
    /\ \E o \in Outcomes : retry' = Attempt(retry, o)
    /\ UNCHANGED <<report_read, main, today, kline_db, rs_vars, ta_vars, ds_vars>>

\* one iteration of the loop of the async wrapper: await func(*args, **kwargs),
\* then await asyncio.sleep(delay) when it failed
async_wrapper ==
    /\ retry.pc = "loop"
    /\ retry.async
    /\ \E o \in Outcomes : retry' = Attempt(retry, o)
    /\ UNCHANGED <<report_read, main, today, kline_db, rs_vars, ta_vars, ds_vars>>

RetryInit ==
    /\ today = Today0
    /\ kline_db = Klines(Empty, Empty, Empty)
    /\ RsIdle
    /\ TaIdle
    /\ DsIdle
    /\ RunIdle

RetryNext ==
    \/ retry_decorator
    \/ async_retry_decorator
    \/ wrapper
    \/ async_wrapper

\* a call of the wrapped function returns or raises: the loop goes on
RetrySpec == RetryInit /\ [][RetryNext]_vars /\ WF_vars(RetryNext)

---------------------------------------------------------------------------
(* The daily run (updater/all_in_one.py, updater/screen_today.py) *)

\* variant: the screener runs before the ranking
NextStageScreenFirst(stage) ==
    CASE stage = "tickers" -> "calendar"
      [] stage = "calendar" -> "kline"
      [] stage = "kline" -> "screen"
      [] stage = "screen" -> "rs"
      [] stage = "rs" -> "ipo"
      [] stage = "ipo" -> "post"
      [] stage = "post" -> "completed"

\* main(): get_tickers, get_calendar, get_kline, get_rs, screen, screen_ipo,
\* run_post_analysis, each awaited before the next is called
NextStage(stage) ==
    CASE stage = "tickers" -> "calendar"
      [] stage = "calendar" -> "kline"
      [] stage = "kline" -> "rs"
      [] stage = "rs" -> "screen"
      [] stage = "screen" -> "ipo"
      [] stage = "ipo" -> "post"
      [] stage = "post" -> "completed"

\* the stage of m.pc returned: the next one is called, and after the last one
\* the completion message is sent
StageReturned(m) ==
    LET next == NextStage(m.pc)
    IN [m EXCEPT !.ran = Append(@, m.pc),
                 !.pc = next,
                 !.msgs = IF next = "completed" THEN Append(@, "completed") ELSE @]

\* the stage of m.pc raised, because its work failed or not: all_in_one's
\* `except Exception` sends the error; screen_today's main lets it through
StageRaised(m, work) ==
    [m EXCEPT !.pc = "error",
              !.work_failed = @ \/ work,
              !.msgs = IF m.entry = "all_in_one" THEN Append(@, "error") ELSE @]

\* all_in_one.main() up to get_tickers(): the calendar is read (the read may
\* fail), and the run goes on when today is in it
all_in_one_main ==
    /\ main.pc = "idle"
    /\ \E ok \in BOOLEAN :
          LET m == [main EXCEPT !.entry = "all_in_one", !.day = today]
          IN main' = IF ~ok THEN StageRaised(m, TRUE)
                     ELSE IF ~InCalendar(today) THEN [m EXCEPT !.pc = "skipped"]
                     ELSE [m EXCEPT !.pc = "tickers", !.msgs = <<"updating">>]
    /\ UNCHANGED <<report_read, retry, today, kline_db, rs_vars, ta_vars, ds_vars>>

\* screen_today.main(): the test of the trading day is commented out
screen_today_main ==
    /\ main.pc = "idle"
    /\ main' = [main EXCEPT !.entry = "screen_today", !.day = today, !.pc = "screen"]
    /\ UNCHANGED <<report_read, retry, today, kline_db, rs_vars, ta_vars, ds_vars>>

\* get_tickers(), get_calendar(), get_kline(), screen_ipo() and
\* run_post_analysis(): the work of the stage succeeds or raises; screen_ipo
\* then names DbTable.IPO_SCREENING, which DbTable does not have
main_stage ==
    /\ main.pc \in {"tickers", "calendar", "kline", "ipo", "post"}
    /\ \E ok \in BOOLEAN :
          main' = IF ~ok THEN StageRaised(main, TRUE)
                  ELSE IF main.pc = "ipo" THEN StageRaised(main, FALSE)
                  ELSE StageReturned(main)
    /\ UNCHANGED <<report_read, retry, today, kline_db, rs_vars, ta_vars, ds_vars>>

\* get_rs(): rs = RelativeStrengthCalculator(); await rs.initialize()
get_rs_initialize ==
    /\ main.pc = "rs"
    /\ stocks = <<>>
    /\ initialize

\* get_rs(): await rs.update_all_rs(), up to its first await
get_rs_update_all_rs ==
    /\ main.pc = "rs"
    /\ runs = 0
    /\ update_all_rs

\* update_all_rs() running inside get_rs()
get_rs_loop ==
    /\ main.pc = "rs"
    /\ batch_get_all_rs_loop

get_rs_rank ==
    /\ main.pc = "rs"
    /\ batch_get_all_rs_rank

get_rs_raise ==
    /\ main.pc = "rs"
    /\ batch_get_all_rs_raise

\* update_all_rs() returned (then create_logging, which may fail) or raised
get_rs_ended ==
    /\ main.pc = "rs"
    /\ pc \in {"done", "aborted"}
    /\ \E ok \in BOOLEAN :
          main' = IF pc = "aborted" \/ ~ok THEN StageRaised(main, TRUE) ELSE StageReturned(main)
    /\ UNCHANGED <<report_read, retry, today, kline_db, rs_vars, ta_vars, ds_vars>>

\* screen(), and main() of screen_today: ds = DailyScreener()
screen_DailyScreener ==
    /\ main.pc = "screen"
    /\ DailyScreener

\* await ds.initialize()
screen_initialize ==
    /\ main.pc = "screen"
    /\ ds_initialize

\* ds.initialize() raised: screen_all, save and create_logging are not reached
screen_raised ==
    /\ main.pc = "screen"
    /\ ds_run.pc = "aborted"
    /\ main' = StageRaised(main, FALSE)
    /\ UNCHANGED <<report_read, retry, today, kline_db, rs_vars, ta_vars, ds_vars>>

\* midnight passes while the run waits for a stage's own work
main_Tick ==
    /\ main.pc \in {"tickers", "calendar", "kline", "screen"}
    /\ Tick

\* the days a run is started on: a trading day and a Saturday
MainDays == {Today0, Today0 + 3}

MainInit ==
    /\ today \in MainDays
    /\ kline_db \in Universes
    /\ RsIdle
    /\ TaIdle
    /\ DsIdle
    /\ RunIdle

MainStep ==
    \/ all_in_one_main
    \/ screen_today_main
    \/ main_stage
    \/ get_rs_initialize
    \/ get_rs_update_all_rs
    \/ get_rs_raise
    \/ get_rs_loop
    \/ get_rs_rank
    \/ get_rs_ended
    \/ screen_DailyScreener
    \/ screen_initialize
    \/ screen_raised

MainNext ==
    \/ MainStep
    \/ main_Tick

\* an awaited coroutine goes on; midnight need not pass
MainSpec == MainInit /\ [][MainNext]_vars /\ WF_vars(MainStep)

---------------------------------------------------------------------------
(* Properties *)

Series == {"rs", "m1", "m3", "m6"}

\* the field of a record that holds the percentile of a series
FieldOf(rec, which) ==
    CASE which = "rs" -> rec.rscore
      [] which = "m1" -> rec.M1
      [] which = "m3" -> rec.M3
      [] OTHER        -> rec.M6

\* the tickers of a ranking that have a score in a series, and their number
Scored(h, which) == {t \in DOMAIN h.snap : ~SeriesOf(h.snap[t], which).nan}
Count(h, which) == Cardinality(Scored(h, which))

\* twice the ascending average rank of ticker t among the scored tickers
TwiceRank(h, which, t) ==
    2 * Cardinality({u \in Scored(h, which) :
                        RLess(SeriesOf(h.snap[u], which), SeriesOf(h.snap[t], which))})
      + Cardinality({u \in Scored(h, which) :
                        SeriesOf(h.snap[u], which) = SeriesOf(h.snap[t], which)}) + 1

AllRecords == rs_db \cup Range(merged)

\* the ranking the run computed last: every ranking of a behaviour is the last
\* one in the state that follows its computation
Ranked == merged # <<>>
Last ==
    [date |-> merged[1].date, snap |-> Snapshot(combined, merged[1].date),
     order |-> ColumnOrder(combined), rows |-> Range(merged)]

\* C1: every percentile (rscore, M1, M3, M6) computed or stored for a ticker
\* ranked in that series is an integer from 0 to 100, and a ticker ranked on
\* the composite is ranked in M1, M3 and M6 as well.
C1_RankBounds ==
    \A rec \in AllRecords :
        /\ \A which \in Series :
              ~FieldOf(rec, which).nan => FieldOf(rec, which).v \in 0..100
        /\ ~rec.rscore.nan => (~rec.M1.nan /\ ~rec.M3.nan /\ ~rec.M6.nan)

C1_Witness ==
    \E a, b \in rs_db :
        /\ a.date = b.date
        /\ a.rscore = IVal(100)
        /\ ~b.rscore.nan /\ b.rscore.v < 50

\* C2: of two tickers ranked on the same date, the one with the strictly greater
\* composite score has an rscore at least as large.
C2_RankMonotone ==
    Ranked =>
        LET h == Last
        IN \A a, b \in h.rows :
              (/\ ~a.rscore.nan /\ ~b.rscore.nan
               /\ RLess(h.snap[b.ticker].rs, h.snap[a.ticker].rs))
              => a.rscore.v >= b.rscore.v

C2_Witness ==
    /\ Ranked
    /\ \E a, b \in Last.rows :
          /\ ~a.rscore.nan /\ ~b.rscore.nan
          /\ RLess(Last.snap[b.ticker].rs, Last.snap[a.ticker].rs)
          /\ a.rscore.v > b.rscore.v

\* the ranking of the composite scores 1..20
Scenario20 == RankFrame([c \in 1..20 |-> [ticker |-> c, v |-> Rat(c, 1)]])

\* every scored ticker of a ranking has a record, and a record has a value in
\* a series exactly when its ticker is scored in it
RecordsMatchScores(h) ==
    /\ \A t \in DOMAIN h.snap :
          (\E which \in Series : t \in Scored(h, which)) => \E rec \in h.rows : rec.ticker = t
    /\ \A rec \in h.rows : \A which \in Series :
          FieldOf(rec, which).nan <=> rec.ticker \notin Scored(h, which)

\* C3 as stated: the percentile is rank / N x 100 rounded to the nearest integer.
C3_RoundedPercentile ==
    Ranked =>
        \A rec \in Last.rows :
            ~rec.rscore.nan =>
                LET n == Count(Last, "rs")
                    r2 == TwiceRank(Last, "rs", rec.ticker)
                IN /\ 2 * n * rec.rscore.v - 100 * r2 <= n
                   /\ 100 * r2 - 2 * n * rec.rscore.v <= n

\* C3 amended: for N tickers ranked on a date in a series, each percentile is
\* rank / N x 100 truncated to an integer (not rounded), where rank is the
\* ascending rank among the N and N counts only the tickers ranked in that
\* series that day; with composite scores 1..20 the score 20 gets rscore 100
\* and the score 1 gets rscore 5.
C3_TruncatedPercentile ==
    /\ Ranked =>
          LET h == Last
          IN /\ RecordsMatchScores(h)
             /\ \A rec \in h.rows : \A which \in Series :
                   ~FieldOf(rec, which).nan =>
                       LET n == Count(h, which)
                           r2 == TwiceRank(h, which, rec.ticker)
                           v == FieldOf(rec, which).v
                       IN 2 * n * v <= 100 * r2 /\ 100 * r2 < 2 * n * (v + 1)
    /\ Scenario20[20].score = 100
    /\ Scenario20[1].score = 5

C3_Witness ==
    /\ Ranked
    /\ Count(Last, "rs") = 3
    /\ \E rec \in Last.rows : rec.rscore = IVal(66)

\* the tickers whose turn in `for ticker in self.stocks` has passed
Processed == {stocks[p] : p \in 1..(i - 1)}
Columns == {combined[c].ticker : c \in 1..Len(combined)}

\* C4: a ticker with exactly 251 bars is excluded (batch_get_rs returns None
\* and the run produces no record for it) and a ticker with exactly 252 bars
\* is included; get_rs has the same floor.
C4_HistoryFloor ==
    /\ pc \in {"loop", "rank"} =>
          \A t \in Processed :
              LET n == Shape0(kline_db[t], today)
              IN /\ n < MinBars =>
                      /\ t \notin Columns
                      /\ \A rec \in AllRecords :
                            rec.ticker = t => rec.date \notin start..end
                 /\ n >= MinBars => t \in Columns
    /\ (single_rs.set /\ InCalendar(single_rs.date)) =>
          (single_rs.none <=> Shape0(kline_db[single_rs.ticker], single_rs.date) < MinBars)

C4_Witness ==
    /\ pc = "rank"
    /\ \E t, u \in Processed :
          /\ Shape0(kline_db[t], today) = MinBars - 1 /\ t \notin Columns
          /\ Shape0(kline_db[u], today) = MinBars /\ u \in Columns

\* C5 as stated: a ticker with fewer than 252 bars dated <= D is not in the
\* ranking of D.
C5_AsOfDateFloor ==
    Ranked =>
        \A t \in DOMAIN Last.snap : Shape0(kline_db[t], Last.date) >= MinBars

\* the adjusted close on calendar day d: the last bar dated <= d
CloseOn(k, d) == AdjClose(k, PrevBar(k, d))
HasCloseOn(k, d) == d >= NextBar(k, k.first)

\* a score equals p / q, or is missing when q is
IsRatio(score, k, d, h) ==
    IF HasCloseOn(k, d - h)
    THEN ~score.nan /\ score.n * CloseOn(k, d - h) = score.d * CloseOn(k, d)
    ELSE score.nan

\* C6: the composite score is 0.4 p/p90 + 0.2 p/p180 + 0.2 p/p270 + 0.2 p/p360
\* with pH the adjusted close H calendar days back, M1, M3, M6 are p/p30,
\* p/p90, p/p180, and each of the four is ranked with its own count.
C6_CompositeFormula ==
    Ranked =>
      LET h == Last
      IN
        /\ \A t \in DOMAIN h.snap :
              LET k == kline_db[t]
                  sc == h.snap[t]
                  p == CloseOn(k, h.date)
                  p90 == CloseOn(k, h.date - H90)
                  p180 == CloseOn(k, h.date - H180)
                  p270 == CloseOn(k, h.date - H270)
                  p360 == CloseOn(k, h.date - H360)
              IN /\ IsRatio(sc.m1, k, h.date, H30)
                 /\ IsRatio(sc.m3, k, h.date, H90)
                 /\ IsRatio(sc.m6, k, h.date, H180)
                 /\ IF HasCloseOn(k, h.date - H360)
                    THEN /\ ~sc.rs.nan
                         /\ 5 * sc.rs.n * p90 * p180 * p270 * p360
                              = sc.rs.d * p * (2 * p180 * p270 * p360 + p90 * p270 * p360
                                               + p90 * p180 * p360 + p90 * p180 * p270)
                    ELSE sc.rs.nan
        /\ \A rec \in h.rows : \A which \in Series :
              ~FieldOf(rec, which).nan =>
                  FieldOf(rec, which).v
                    = (TwiceRank(h, which, rec.ticker) * 100) \div (2 * Count(h, which))

C6_Witness ==
    /\ Ranked
    /\ Count(Last, "m1") > Count(Last, "rs")
    /\ \E t, u \in Scored(Last, "rs") : RLess(Last.snap[t].rs, Last.snap[u].rs)
    /\ \E t \in Scored(Last, "rs") : Last.snap[t].m6 # Last.snap[t].m3

\* C7 as stated: every record written carries an integer rscore in 0..100.
C7_NoMissingRscore ==
    \A rec \in AllRecords : ~rec.rscore.nan /\ rec.rscore.v \in 0..100

UniqueRows ==
    \A a, b \in rs_db : SameKey(a, b) => a = b

\* C8: the RelativeStrength table holds at most one row per (ticker, date), and
\* a stored row is never changed or removed, whatever runs follow.
C8_AppendOnly == [](UniqueRows) /\ [][rs_db \subseteq rs_db']_vars

\* a run that computed, for a stored key, a record different from the stored row
C8_Witness ==
    /\ pc \in {"rank", "done"}
    /\ succ_count >= 1
    /\ runs = 2
    /\ \E rec \in Range(merged) : \E row \in rs_db :
          SameKey(rec, row) /\ rec # row

\* C9: two rankings of the same date on the same score snapshot give the same
\* records, whatever the order in which the tickers were read.
C9_RankDeterministic ==
    Ranked =>
        LET g == Last
        IN \A h \in hist : (h.date = g.date /\ h.snap = g.snap) => h.rows = g.rows

C9_Witness ==
    /\ Ranked
    /\ \E h \in hist :
          /\ h.date = Last.date /\ h.snap = Last.snap /\ h.order # Last.order
    /\ \E t, u \in Scored(Last, "rs") : t # u /\ Last.snap[t].rs = Last.snap[u].rs

\* C10 as stated: a run that ended has given every ticker its turn, also when
\* the processing of one of them raised.
C10_TickerErrorIsolated ==
    (pc \in {"done", "aborted"} /\ error # "insert") => i = Len(stocks) + 1

\* the ratio of the adjusted close on day d to that of the first bar dated
\* >= d - h, and the composite of such ratios
StatedRatio(k, d, h) ==
    RDiv(Rat(CloseOn(k, d), 1), Rat(AdjClose(k, NextBar(k, d - h)), 1))
StatedComposite(k, d) ==
    RAdd(RAdd(RAdd(RMul(Rat(2, 5), StatedRatio(k, d, H90)),
                   RMul(Rat(1, 5), StatedRatio(k, d, H180))),
              RMul(Rat(1, 5), StatedRatio(k, d, H270))),
         RMul(Rat(1, 5), StatedRatio(k, d, H360)))

\* C23 as stated: for each horizon H the denominator of the ratio for date D
\* is the adjusted close of the first bar dated >= D - H, in the ranking path
\* (batch_get_rs) and in the single-ticker path (get_rs) alike.
C23_SameDenominator ==
    /\ Ranked =>
          \A t \in DOMAIN Last.snap :
              LET k == kline_db[t]
                  sc == Last.snap[t]
              IN /\ sc.m1 = StatedRatio(k, Last.date, H30)
                 /\ sc.m3 = StatedRatio(k, Last.date, H90)
                 /\ sc.m6 = StatedRatio(k, Last.date, H180)
                 /\ sc.rs = StatedComposite(k, Last.date)
    /\ (single_rs.set /\ ~single_rs.none) =>
          single_rs.v = StatedComposite(kline_db[single_rs.ticker], single_rs.date)

\* the positions ticker t and its ties occupy when the scored tickers of a
\* series are sorted in ascending order of score: the first and the last
Below(h, which, t) ==
    {u \in Scored(h, which) : RLess(SeriesOf(h.snap[u], which), SeriesOf(h.snap[t], which))}
Tied(h, which, t) ==
    {u \in Scored(h, which) : SeriesOf(h.snap[u], which) = SeriesOf(h.snap[t], which)}
FirstPosition(h, which, t) == Cardinality(Below(h, which, t)) + 1
LastPosition(h, which, t) == Cardinality(Below(h, which, t)) + Cardinality(Tied(h, which, t))

\* C25: the rank is ascending (rank 1 = lowest score) with average-rank
\* tie-breaking: tickers with equal scores on a date get the mean of the
\* positions they occupy as rank, and so the same percentile.
C25_AverageRank ==
    Ranked =>
        LET h == Last
        IN \A which \in Series : \A a \in h.rows :
              ~FieldOf(a, which).nan =>
                  /\ FieldOf(a, which).v =
                        (100 * (FirstPosition(h, which, a.ticker)
                                  + LastPosition(h, which, a.ticker)))
                          \div (2 * Count(h, which))
                  /\ \A b \in h.rows :
                        (/\ ~FieldOf(b, which).nan
                         /\ b.ticker \in Tied(h, which, a.ticker))
                        => FieldOf(b, which) = FieldOf(a, which)

\* three tickers ranked on M1: the lowest at rank 1, the two others tied at
\* rank 2.5
C25_Witness ==
    /\ Ranked
    /\ Count(Last, "m1") = 3
    /\ \E a, b, c \in Last.rows :
          /\ a.ticker # b.ticker
          /\ b.ticker \in Tied(Last, "m1", a.ticker)
          /\ a.M1 = IVal(83) /\ b.M1 = IVal(83)
          /\ FirstPosition(Last, "m1", c.ticker) = 1
          /\ c.M1 = IVal(33)

\* the tickers that have a stored row of date d, and the sets of tickers of
\* the rankings of d computed so far
StoredTickers(d) == {row.ticker : row \in {r \in rs_db : r.date = d}}
RankedSets(d) == {{rec.ticker : rec \in h.rows} : h \in {g \in hist : g.date = d}}

\* C27: the rows of a date are written by one bulk insert after the ranking of
\* the date is complete: at every point of a run the tickers with a stored
\* row of a date are all the tickers of one or more rankings of that date,
\* never a part of one.
C27_AllOrNothing ==
    \A d \in {row.date : row \in rs_db} :
        \E S \in SUBSET RankedSets(d) : S # {} /\ UNION S = StoredTickers(d)

\* a run stopped by the insert of its second date: the first date has the rows
\* of all its ranked tickers, the second none
C27_Witness ==
    /\ pc = "aborted" /\ error = "insert"
    /\ merged # <<>>
    /\ StoredTickers(merged[1].date) = {}
    /\ \E d \in {row.date : row \in rs_db} : Cardinality(StoredTickers(d)) >= 2

---------------------------------------------------------------------------
(* Properties of TaAnalyzer.get_result *)

\* What the prose of the criteria says of a frame, read on day now
NonDecreasing(kline, S) ==
    LET ma200 == {<<b, MaAt(kline, Ma200, b)>> : b \in S}
    IN \A p \in ma200, q \in ma200 :
          p[1] <= q[1] => ~p[2].nan /\ ~q[2].nan /\ ~RLess(q[2], p[2])
StatedOfFrame(kline) ==
    [deep_drawdown |-> Len(kline) > 0 /\ RLess(MaxDrawdownOfClose(kline), Rat(0 - 35, 100)),
     low_volume |->
        /\ FLess(Mean(VolumeCol(Tail_n(kline, 1))), Mean(VolumeCol(Tail_n(kline, 5))))
        /\ FLess(Mean(VolumeCol(Tail_n(kline, 1))), Mean(VolumeCol(Tail_n(kline, 10))))
        /\ FLess(Mean(VolumeCol(Tail_n(kline, 1))), Mean(VolumeCol(Tail_n(kline, 20)))),
     adr_ok |-> FLeq(Rat(QullAdr, 1), Adr(kline)),
     usd_ok |-> FLeq(Rat(QullVolumeUsd, 1), MeanVolumeUsd(kline))]
StatedOfTrend(kline, now) ==
    [samples_5m |-> Cardinality(Samples(kline, 5, now)),
     samples_1m |-> Cardinality(Samples(kline, 1, now)),
     monotone_5m |-> NonDecreasing(kline, Samples(kline, 5, now)),
     monotone_1m |-> NonDecreasing(kline, Samples(kline, 1, now))]
StatedFrameTable ==
    {<<h, date, StatedOfFrame(Upto(Bars(h), date))>> : h \in TaHistories, date \in Dates}
StatedTrendTable ==
    UNION {{<<h, date, now, StatedOfTrend(Upto(Bars(h), date), now)>> :
                h \in TaHistories, date \in AsOfDates(now)} : now \in Days}

\* the frame of the last call of get_result, as the code and as the prose read it
F == Facts(kline_db[ta.ticker], ta_out.date, ta_out.now)
R == (CHOOSE e \in StatedFrameTable :
        e[1] = kline_db[ta.ticker] /\ e[2] = ta_out.date)[3]
     @@ (CHOOSE e \in StatedTrendTable :
            e[1] = kline_db[ta.ticker] /\ e[2] = ta_out.date /\ e[3] = ta_out.now)[4]

\* the last call ran on a loaded analyzer; it returned a value for name
Evaluated == ta_out.called /\ ta_out.loaded
Gave(name) == Evaluated /\ ~ta_out.raised /\ name \in DOMAIN ta_out.result

\* the names of the criteria a caller may pass: the values of the enumeration
\* and its members
Values == Range(TaMeasurements)
ValueOf(name) ==
    IF name \in Values THEN name
    ELSE CHOOSE v \in Values : \E p \in 1..Len(Members) : Members[p] = name /\ TaMeasurements[p] = v
Known(cret) == \A p \in 1..Len(cret) : cret[p] \in Values \cup Range(Members)

\* C13 as stated: for a list cret of criteria of TaMeasurements (all of them
\* when none is passed) get_result returns a map whose key set is exactly the
\* criteria of cret, each with a boolean.
C13_KeySet ==
    (Evaluated /\ Known(ta.cret)) =>
        /\ ~ta_out.raised
        /\ DOMAIN ta_out.result = {ValueOf(ta.cret[p]) : p \in 1..Len(ta.cret)}
        /\ \A n \in DOMAIN ta_out.result : ta_out.result[n] \in BOOLEAN

\* the sub-conditions of STAGE2 in the words of the criteria table
Composite == ta.rs[1].v
AllTwelve ==
    /\ F.c_1 /\ F.ma150_above_ma200 /\ F.c_3 /\ F.c_4 /\ F.c_5 /\ F.c_6
    /\ Composite > MinRs /\ F.c_8 /\ F.c_9 /\ F.c_10 /\ F.guard /\ F.c_12
TheEleven ==
    /\ F.c_1 /\ (Composite >= WaiverRs \/ F.ma150_above_ma200) /\ F.c_3 /\ F.c_4
    /\ F.c_5 /\ F.c_6 /\ Composite > MinRs /\ F.c_8 /\ F.c_9 /\ F.c_10 /\ F.c_12

TheOtherTen ==
    /\ F.c_1 /\ F.c_3 /\ F.c_4 /\ F.c_5 /\ F.c_6 /\ Composite > MinRs
    /\ F.c_8 /\ F.c_9 /\ F.c_10 /\ F.c_12

C15_DrawdownOfClose ==
    (Evaluated /\ F.rows > 0) =>
        /\ F.c_12 = ~R.deep_drawdown
        /\ (Gave("stage2") /\ R.deep_drawdown) => ~ta_out.result["stage2"]

\* C16 as stated: with fewer bars than a moving average needs, every
\* sub-condition that reads the average is false and get_result returns, for
\* every history length (none included) and every composite percentile.
C16_FailsClosed ==
    (ta_out.called /\ Known(ta.cret) /\ ~ta.rs[1].none) =>
        /\ ~ta_out.raised
        /\ F.rows < Ma200 => ~c_2(F, ta.rs) /\ ~F.c_3
        /\ F.rows < Ma150 => ~F.c_1 /\ ~F.c_4
        /\ F.rows < Ma50 => ~F.c_8
        /\ (F.rows < Ma200 /\ Gave("stage2")) => ~ta_out.result["stage2"]

\* C17 as stated: two calls of get_result on the same bars, percentiles and
\* criteria with the same as-of date give the same outcome, whatever the
\* wall-clock day of each call.
C17_Pure ==
    (/\ ta_out.called /\ ta_prev.called
     /\ ta_out.loaded = ta_prev.loaded
     /\ ta_out.date = ta_prev.date) =>
        ta_out.raised = ta_prev.raised /\ ta_out.result = ta_prev.result

CutHistory(h, date) == IF h = Uptrend /\ date = Today0 - 7 THEN UptrendCut ELSE h

\* every name of cret is a value of the enumeration
AllValues(cret) == \A p \in 1..Len(cret) : cret[p] \in Values

\* C28 as stated: when the as-of date has no bar, get_result does not abort:
\* it logs that the date is not included and evaluates every criterion on the
\* bars dated before it; in all cases no bar dated after the as-of date
\* influences the result.
C28_NoBarOnDate ==
    /\ (Evaluated /\ ~date_included(F, ta_out.date)) => ta_out.warned
    /\ (Evaluated /\ ~date_included(F, ta_out.date) /\ AllValues(ta.cret) /\ ~ta.rs[1].none) =>
          /\ ~ta_out.raised
          /\ DOMAIN ta_out.result = Range(ta.cret)
    /\ Evaluated =>
          LET cut == get_result([ta EXCEPT !.kline = CutHistory(ta.kline, ta_out.date)],
                                ta_out.date, ta_out.now)
          IN ta_out.raised = cut.raised /\ ta_out.result = cut.result

\* C19 as stated: with at least 20 bars, RECENT_LOW_VOLUME is true exactly
\* when the volume of the most recent bar is below each of the trailing 5-,
\* 10- and 20-bar mean volumes.
C19_LowVolume ==
    (Gave("recent_low_volume") /\ F.rows >= LowVolumeDays) =>
        (ta_out.result["recent_low_volume"] = R.low_volume)

\* C20 as stated: QULL_Mx is true exactly when the Mx percentile is above 90,
\* the 20-bar ADR is at least 4 and the 20-bar mean of volume x close is at
\* least 8,000,000; a percentile of exactly 90 or a missing one gives false.
QullStated(months) ==
    /\ ~QullRsOf(ta.rs, months).none
    /\ QullRsOf(ta.rs, months).v > QullRs
    /\ R.adr_ok
    /\ R.usd_ok
C20_Qull ==
    /\ Gave("qull_m1") => (ta_out.result["qull_m1"] = QullStated(1))
    /\ Gave("qull_m3") => (ta_out.result["qull_m3"] = QullStated(3))
    /\ Gave("qull_m6") => (ta_out.result["qull_m6"] = QullStated(6))

---------------------------------------------------------------------------
(* Properties of DailyScreener *)

\* the tickers screen_all has been through, and those with a row in summary
Screened == {ds.stocks[p] : p \in 1..(ds_run.i - 1)}
InSummary == {ds_run.summary[p].ticker : p \in 1..Len(ds_run.summary)}
Failed(t) == screen_stock(t, ds.rs_dict, kline_db, today) = EmptyMap
LoopOver == ds_run.i > Len(ds.stocks) /\ ds_run.pc \in {"done", "aborted"}

\* C11 as stated: when no ticker yields a result, screen_all returns without
\* raising and with succ_tickers empty, and save() writes no report.
C11_EmptyRun ==
    (LoopOver /\ ds_run.summary = <<>>) =>
        /\ ds_run.pc = "done"
        /\ ds.succ_tickers = EmptyMap
        /\ report_db = <<>>

\* C12: a name that is no value of TaMeasurements makes get_result raise and
\* return no map; in screen_all a ticker whose evaluation raised has no row in
\* summary, and the loop goes on to the last ticker.
C12_UnknownCriterion ==
    /\ (Evaluated /\ \E p \in 1..Len(ta.cret) : ta.cret[p] \notin Values) =>
            ta_out.raised /\ ta_out.result = EmptyMap
    /\ ds_run.pc \in {"loop", "summary", "done", "aborted"} =>
            /\ InSummary = {t \in Screened : ~Failed(t)}
            /\ (ds_run.pc = "aborted" /\ ds_run.i > 0) => ds_run.i = Len(ds.stocks) + 1

\* get_result has raised at the unknown name that follows a known one
C12_Witness ==
    /\ Evaluated
    /\ ta.cret = <<"seven_day_low_volatility", "unknown">>
    /\ ta_out.raised

\* the tickers, in the order of the universe, whose row of summary holds True
\* for kind
Passing(kind) ==
    SelectSeq(ds.stocks,
              LAMBDA t : \E p \in 1..Len(ds_run.summary) :
                            /\ ds_run.summary[p].ticker = t
                            /\ ds_run.summary[p].result[kind])

\* C21: after screen_all, succ_tickers has one list per criterion name, the
\* tickers whose evaluation returned true for it, in universe order; a ticker
\* whose evaluation failed or returned no result is in no list.
C21_WatchLists ==
    ds_run.pc = "done" =>
        /\ DOMAIN ds.succ_tickers = Values
        /\ \A k \in Values :
              /\ ds.succ_tickers[k] = Passing(k)
              /\ \A t \in Range(ds.stocks) \ InSummary : t \notin Range(ds.succ_tickers[k])

\* a universe read in descending order, one ticker failed, a list of two
\* tickers and a list of one
C21_Witness ==
    /\ ds_run.pc = "done"
    /\ ds.stocks[1] > ds.stocks[2]
    /\ Range(ds.stocks) \ InSummary # {}
    /\ \E k, n \in Values :
          /\ Len(ds.succ_tickers[k]) = 2
          /\ ds.succ_tickers[k][1] > ds.succ_tickers[k][2]
          /\ Len(ds.succ_tickers[n]) = 1

\* the rows of a kind that the table held when read_first was called last
Retrievable == {p \in RowsOf(report_db, report_read.kind) : p <= report_read.rows}

\* a call of save() adds one row per kind to the rows the table holds
SaveAppends ==
    ds_run'.saved = ds_run.saved + 1 =>
        /\ SubSeq(report_db', 1, Len(report_db)) = report_db
        /\ \A k \in DOMAIN ds.succ_tickers :
              Cardinality(RowsOf(report_db', k)) = Cardinality(RowsOf(report_db, k)) + 1

\* the last read_first returned the row inserted last among those it could see
ReadIsLatest ==
    (report_read.called /\ Retrievable # {}) =>
        /\ ~report_read.none
        /\ \A q \in Retrievable : q <= report_read.id

\* C22 as stated: a report written twice leaves two rows, and read_first for
\* its kind returns the row inserted later.
C22_LatestInserted == [][SaveAppends]_vars /\ []ReadIsLatest

---------------------------------------------------------------------------
(* Properties of the retry decorators *)

\* the attempts made so far that failed: an exception, or a result in
\* failure_return_types
FailedAttempt(o) == o.raised \/ In(o.v, retry.failure_return_types)
RaisedAt == {p \in 1..Len(retry.calls) : retry.calls[p].raised}
Ended == retry.pc \in {"returned", "raised"}

\* the wrapper makes at most n calls, none after a result that is no failure,
\* and ends with that result, or after n failures with the last exception
\* raised, or the last result when none was
RetryOutcome ==
    /\ Len(retry.calls) <= retry.retries
    /\ \A p \in 1..Len(retry.calls) :
          ~FailedAttempt(retry.calls[p]) =>
              /\ p = Len(retry.calls)
              /\ retry.pc = "returned"
              /\ retry.out = retry.calls[p].v
    /\ (retry.pc = "loop") =>
          /\ Len(retry.calls) < retry.retries
          /\ \A p \in 1..Len(retry.calls) : FailedAttempt(retry.calls[p])
    /\ (Ended /\ \A p \in 1..Len(retry.calls) : FailedAttempt(retry.calls[p])) =>
          /\ Len(retry.calls) = retry.retries
          /\ IF RaisedAt # {}
             THEN /\ retry.pc = "raised"
                  /\ retry.out = retry.calls[CHOOSE p \in RaisedAt :
                                                \A q \in RaisedAt : q <= p].v
             ELSE /\ retry.pc = "returned"
                  /\ retry.out = IF retry.calls = <<>> THEN "None"
                                 ELSE retry.calls[Len(retry.calls)].v

\* C29: a function wrapped with retries = n is called at most n times and the
\* wrapper always terminates: it returns the first result that is not in
\* failure_return_types without further calls, and after n failed attempts
\* it raises the last exception raised, or returns the last result if no
\* attempt raised.
C29_BoundedRetry == []RetryOutcome /\ ((retry.pc = "loop") ~> Ended)

\* two attempts, the first raised and the second returned None: the
\* exception of the first is raised
C29_Witness ==
    /\ retry.pc = "raised"
    /\ retry.retries = 2
    /\ retry.failure_return_types = <<"None">>
    /\ retry.calls = <<[raised |-> TRUE, v |-> "E1"], [raised |-> FALSE, v |-> "None"]>>
    /\ retry.out = "E1"

---------------------------------------------------------------------------
(* Properties of the daily run *)

\* the screener's initialize() reads RelativeStrength in this step
ScreenerReads == ds_run.pc = "idle" /\ ds_run'.pc # "idle"

\* in all_in_one the read comes after update_all_rs returned
ReadAfterReturn ==
    (ScreenerReads /\ main.entry = "all_in_one") =>
        pc = "done" /\ runs > 0 /\ "rs" \in Range(main.ran)

\* what was read for the date is all that the table ever holds for it
RankingComplete ==
    ds_run.pc # "idle" => ds_run.rs_read = StoredTickers(ds_run.read_date)

\* a ticker's criteria are evaluated, or a report is written, only by a
\* screener that read rows of its date
NoRowsNoScreening ==
    ds_run.rs_read = {} =>
        /\ ds_run.i = 0
        /\ ds_run.summary = <<>>
        /\ ds.stocks = <<>>
        /\ ds.succ_tickers = EmptyMap
        /\ report_db = <<>>
        /\ ~ta.made

\* C26: in the daily run DailyScreener reads the percentiles of the date only
\* after update_all_rs has returned, the ranking of the date is complete and
\* stored when it is read, and no ticker is screened when the date has no
\* RelativeStrength rows
C26_RankBeforeScreen ==
    /\ [][ReadAfterReturn]_vars
    /\ [](RankingComplete /\ NoRowsNoScreening)

\* the screener of all_in_one has read the stored ranking of today
C26_Witness ==
    /\ main.entry = "all_in_one"
    /\ "rs" \in Range(main.ran)
    /\ ds_run.pc # "idle"
    /\ ds_run.read_date = today
    /\ ds_run.rs_read # {}
    /\ ds_run.rs_read = StoredTickers(today)

\* the stages in the order stated
StatedOrder == <<"tickers", "calendar", "kline", "rs", "screen", "ipo", "post">>

\* the stages that returned are the first ones of the stated order
StageOrder == main.ran = SubSeq(StatedOrder, 1, Len(main.ran))

\* the calculator and the screener work only in their own stage
OneStageAtATime ==
    /\ pc \in {"loop", "rank"} => main.pc = "rs"
    /\ stocks # <<>> => main.pc = "rs" \/ "rs" \in Range(main.ran) \/ main.pc = "error"
    /\ ds.made => main.pc \in {"screen", "error"} /\ "rs" \in Range(main.ran)

\* on a day that is not in the calendar nothing runs and nothing is sent
SkippedRunsNothing ==
    main.pc = "skipped" =>
        /\ ~InCalendar(main.day)
        /\ main.ran = <<>>
        /\ main.msgs = <<>>
        /\ stocks = <<>>
        /\ rs_db = {}
        /\ ~ds.made

\* a run on a trading day goes through the stages
Started == main.entry = "all_in_one" /\ main.pc = "tickers"
Completed ==
    /\ main.pc = "completed"
    /\ main.ran = StatedOrder
    /\ main.msgs = <<"updating", "completed">>

\* C30: on a trading day on which the work of every stage succeeds,
\* all_in_one.main runs the stages in the order tickers, calendar, kline, RS,
\* screen, IPO screen, post analysis, one after the other, and eventually sends
\* the completion message; on a day that is not a trading day no stage runs
C30_AllStages ==
    /\ [](main.entry = "all_in_one" =>
            StageOrder /\ OneStageAtATime /\ SkippedRunsNothing)
    /\ Started ~> (Completed \/ main.work_failed)

\* the part of C30 that is about states
C30_Safety ==
    main.entry = "all_in_one" => StageOrder /\ OneStageAtATime /\ SkippedRunsNothing

====
